---- MODULE Spec2Model ----
(***************************************************************************)
(* Wallet ledger of the EyyBack backend: the Wallet model                  *)
(* (models/Wallet.js), the wallet controller                               *)
(* (controllers/walletController.js) and the registration bonus            *)
(* (routes/auth.js), as a state machine over the stored wallet documents   *)
(* and the request handlers in flight.  Every await on the store is one    *)
(* atomic step of a handler; what a handler read before an await is kept   *)
(* in its record and may be stale when the next step runs.                 *)
(***************************************************************************)
EXTENDS Integers, Sequences, FiniteSets, TLC

\* ---------------------------------------------------------------- bounds
MaxTxns == 2
NumProcs == 2
MaxDebitors == 4
MaxRefs == MaxTxns + 1
MaxHistory == 3

\* ------------------------------------------------------ program constants
RegistrationBonus == 500
MinCashOut == 100
MaxRetries == 3

Users == {"u1"}
Amounts == {100, 500}
AmountInputs == Amounts \cup {0, 50}
\* reference ids a request may carry; 0 stands for an absent field
RefInputs == 0..MaxRefs
Tokens == {"secret", "test_token", "bad"}
TopUpStatuses == {"PAID", "EXPIRED", "PENDING"}
PayoutStatuses == {"COMPLETED", "FAILED", "PENDING"}

VARIABLES users, wallets, procs, nextRef, payouts, env

vars == <<users, wallets, procs, nextRef, payouts, env>>

\* ------------------------------------------------------------ data model
NoWallet ==
    [exists |-> FALSE, documents |-> 0, balance |-> 0, transactions |-> <<>>]

NewWallet(initialBalance) ==
    [exists |-> TRUE, documents |-> 1, balance |-> initialBalance,
     transactions |-> <<>>]

\* a transactionSchema sub-document; id is the sub-document _id, xenditId 0
\* stands for an absent xenditId; createdAt is the millisecond of the
\* sub-document's timestamps, 0 where the clock is left out; rideId is
\* metadata.rideId, 0 in entries that no ride wrote
Txn(id, type, amount, status, referenceId, xenditId) ==
    [id |-> id, type |-> type, amount |-> amount, status |-> status,
     referenceId |-> referenceId, xenditId |-> xenditId, createdAt |-> 0,
     rideId |-> 0]

Idle ==
    [op |-> "idle", pc |-> "idle", user |-> "none", amount |-> 0, ref |-> 0,
     xid |-> 0, status |-> "none", origin |-> "none", tid |-> 0,
     replay |-> FALSE, retryCount |-> 0, tokenMatch |-> FALSE,
     listing |-> <<>>, ride |-> 0, driver |-> "none", driverRef |-> 0,
     result |-> "none"]

Procs == DOMAIN procs

Indexes(u) == 1..Len(wallets[u].transactions)

\* Array.prototype.find / the first array element a query predicate matches;
\* 0 when no element matches
FirstIdx(matching) ==
    IF matching = {} THEN 0
    ELSE CHOOSE i \in matching : \A j \in matching : i <= j

\* handlers in flight that will still append an entry to u's wallet
Appenders(u) ==
    {p \in Procs : /\ procs[p].user = u
                   /\ \/ procs[p].op \in {"deductFunds", "initiateTopUp"}
                      \/ procs[p].op = "initiateCashOut"
                         /\ procs[p].pc \in {"create", "payout", "hold"}}

\* those of them that hold their invoice already
Invoiced(u) ==
    {p \in Appenders(u) : procs[p].op = "initiateTopUp" /\ procs[p].pc = "save"}

CanAppend(u) ==
    /\ Len(wallets[u].transactions) + Cardinality(Appenders(u)) < MaxTxns
    /\ nextRef + Cardinality(Appenders(u) \ Invoiced(u)) <= MaxRefs

\* the record of a handler that has produced its response
ProcessedNow ==
    {"payment_completed", "payment_failed", "cashout_completed",
     "cashout_failed_refunded"}

Done(rec, result) ==
    IF result \in ProcessedNow \/ rec.replay
    THEN [rec EXCEPT !.pc = "done", !.result = result, !.tid = 0, !.amount = 0,
                     !.user = "none"]
    ELSE [Idle EXCEPT !.op = rec.op, !.pc = "done", !.result = result]

Finish(p, result) ==
    procs' = [procs EXCEPT ![p] = Done(@, result)]

\* ------------------------------------------------------------------ Init
\* env is the deployment: NODE_ENV === 'production' and whether
\* XENDIT_CALLBACK_TOKEN is set
Fresh ==
    /\ users = [u \in Users |-> "none"]
    /\ wallets = [u \in Users |-> NoWallet]
    /\ procs = [p \in 1..NumProcs |-> Idle]
    /\ nextRef = 1
    /\ payouts = {}

\* the production deployment with its callback token configured
Init ==
    /\ Fresh
    /\ env = [production |-> TRUE, hasToken |-> TRUE]

\* any deployment
InitAnyEnv ==
    /\ Fresh
    /\ env \in [production : BOOLEAN, hasToken : BOOLEAN]

\* ------------------------------------------------------ routes/auth.js
\* POST /register: a commuter gets a wallet with balance 500 and no entry
Register(u, role) ==
    /\ users[u] = "none"
    /\ users' = [users EXCEPT ![u] = role]
    /\ wallets' = IF role = "commuter"
                  THEN [wallets EXCEPT ![u] = NewWallet(RegistrationBonus)]
                  ELSE wallets
    /\ UNCHANGED <<procs, nextRef, payouts, env>>

\* ------------------------------------------------------ models/Wallet.js
\* an update that writes the balance and loses the entry
ApplyEntryMutant(w, delta, entry) ==
    [w EXCEPT !.balance = @ + delta]

\* the $inc/$push pair of one findOneAndUpdate
ApplyEntry(w, delta, entry) ==
    [w EXCEPT !.balance = @ + delta,
              !.transactions = Append(@, entry)]

\* an update whose filter has no balance condition
HasFundsMutant(w, amount) == TRUE

\* the store predicate { balance: { $gte: amount } }
HasFunds(w, amount) == w.balance >= amount

\* the balance a wallet starts with: the registration bonus of a commuter,
\* 0 for a wallet created lazily
InitialBalance(u) == IF users[u] = "commuter" THEN RegistrationBonus ELSE 0

\* a credit written from the caller's wallet object as it was when loaded
AddFundsMutant(p, u, amount) ==
    /\ procs[p].op = "idle"
    /\ wallets[u].exists
    /\ amount > 0
    /\ CanAppend(u)
    /\ wallets' = [wallets EXCEPT ![u] =
           [@ EXCEPT !.balance = InitialBalance(u) + amount,
                     !.transactions = Append(@,
                         Txn(nextRef, "TOPUP", amount, "COMPLETED", nextRef, 0))]]
    /\ nextRef' = nextRef + 1
    /\ procs' = [procs EXCEPT ![p] =
           Done([Idle EXCEPT !.op = "addFunds", !.user = u], "ok")]
    /\ UNCHANGED <<users, payouts, env>>

\* addFunds: one atomic findOneAndUpdate
AddFunds(p, u, amount) ==
    /\ procs[p].op = "idle"
    /\ wallets[u].exists
    /\ IF amount <= 0
       THEN /\ procs' = [procs EXCEPT ![p] =
                   Done([Idle EXCEPT !.op = "addFunds", !.user = u],
                        "invalid_amount")]
            /\ UNCHANGED <<wallets, nextRef>>
       ELSE /\ CanAppend(u)
            /\ wallets' = [wallets EXCEPT ![u] =
                   ApplyEntry(@, amount,
                       Txn(nextRef, "TOPUP", amount, "COMPLETED", nextRef, 0))]
            /\ nextRef' = nextRef + 1
            /\ procs' = [procs EXCEPT ![p] =
                   Done([Idle EXCEPT !.op = "addFunds", !.user = u], "ok")]
    /\ UNCHANGED <<users, payouts, env>>

\* deductFunds, up to the first await: amount check and reference generation
DeductStart(p, u, amount) ==
    /\ procs[p].op = "idle"
    /\ wallets[u].exists
    /\ IF amount <= 0
       THEN /\ procs' = [procs EXCEPT ![p] =
                   Done([Idle EXCEPT !.op = "deductFunds", !.user = u],
                        "invalid_amount")]
       ELSE /\ CanAppend(u)
            /\ procs' = [procs EXCEPT ![p] =
                   [Idle EXCEPT !.op = "deductFunds", !.pc = "check",
                                !.user = u, !.amount = amount]]
    /\ UNCHANGED <<users, wallets, nextRef, payouts, env>>

\* deductFunds: findById and the application-level balance check
DeductCheck(p) ==
    /\ procs[p].op = "deductFunds"
    /\ procs[p].pc = "check"
    /\ IF wallets[procs[p].user].balance < procs[p].amount
       THEN Finish(p, "insufficient")
       ELSE procs' = [procs EXCEPT ![p].pc = "update"]
    /\ UNCHANGED <<users, wallets, nextRef, payouts, env>>

\* a debit that records its entry as PENDING
DeductUpdateMutant(p) ==
    /\ procs[p].op = "deductFunds"
    /\ procs[p].pc = "update"
    /\ LET u == procs[p].user
           amount == procs[p].amount
       IN IF HasFunds(wallets[u], amount)
          THEN /\ wallets' = [wallets EXCEPT ![u] =
                      ApplyEntry(@, -amount,
                          Txn(nextRef, "PAYMENT", amount, "PENDING", nextRef, 0))]
               /\ nextRef' = nextRef + 1
               /\ Finish(p, "ok")
          ELSE /\ Finish(p, "insufficient")
               /\ UNCHANGED <<wallets, nextRef>>
    /\ UNCHANGED <<users, payouts, env>>

\* deductFunds: the conditional findOneAndUpdate
DeductUpdate(p) ==
    /\ procs[p].op = "deductFunds"
    /\ procs[p].pc = "update"
    /\ LET u == procs[p].user
           amount == procs[p].amount
       IN IF HasFunds(wallets[u], amount)
          THEN /\ wallets' = [wallets EXCEPT ![u] =
                      ApplyEntry(@, -amount,
                          Txn(nextRef, "PAYMENT", amount, "COMPLETED", nextRef, 0))]
               /\ nextRef' = nextRef + 1
               /\ Finish(p, "ok")
          ELSE /\ Finish(p, "insufficient")
               /\ UNCHANGED <<wallets, nextRef>>
    /\ UNCHANGED <<users, payouts, env>>

\* requestCashOut applied to wallet w with reference ref
CashOutHold(w, amount, ref) ==
    ApplyEntry(w, -amount, Txn(ref, "CASHOUT", amount, "PENDING", ref, 0))

\* requestCashOut called on its own with a generated reference
RequestCashOut(p, u, amount) ==
    /\ procs[p].op = "idle"
    /\ wallets[u].exists
    /\ IF amount <= 0
       THEN /\ procs' = [procs EXCEPT ![p] =
                   Done([Idle EXCEPT !.op = "requestCashOut", !.user = u],
                        "invalid_amount")]
            /\ UNCHANGED <<wallets, nextRef>>
       ELSE /\ CanAppend(u)
            /\ IF HasFunds(wallets[u], amount)
               THEN /\ wallets' = [wallets EXCEPT ![u] =
                           CashOutHold(@, amount, nextRef)]
                    /\ nextRef' = nextRef + 1
                    /\ procs' = [procs EXCEPT ![p] =
                           Done([Idle EXCEPT !.op = "requestCashOut",
                                             !.user = u], "ok")]
               ELSE /\ procs' = [procs EXCEPT ![p] =
                           Done([Idle EXCEPT !.op = "requestCashOut",
                                             !.user = u], "insufficient")]
                    /\ UNCHANGED <<wallets, nextRef>>
    /\ UNCHANGED <<users, payouts, env>>

\* ---- the unique index { 'transactions.referenceId': 1 } between wallets
\* the part of the store's duplicate key message that names the index, and
\* the pattern /transactions\\.referenceId/ addFunds tests it with: a
\* backslash, then any one character ("ANY")
DuplicateKeyMessage == <<"transactions", ".", "referenceId">>

AddFundsPattern == <<"transactions", "\\", "ANY", "referenceId">>

\* RegExp.prototype.test
Test(pattern, message) ==
    \E off \in 0..Len(message) :
        /\ off + Len(pattern) <= Len(message)
        /\ \A i \in 1..Len(pattern) :
               pattern[i] = "ANY" \/ pattern[i] = message[off + i]

\* the retry condition in the catch block of each method: only addFunds has one
Retries(op, retryCount) ==
    /\ op = "addFunds"
    /\ Test(AddFundsPattern, DuplicateKeyMessage)
    /\ retryCount < MaxRetries

\* the index refuses a key that an entry of another wallet document holds
DuplicateKey(u, refId) ==
    \E v \in DOMAIN wallets \ {u} :
        \E i \in 1..Len(wallets[v].transactions) :
            wallets[v].transactions[i].referenceId = refId

\* calls that have not yet written
Inserting == {q \in Procs : procs[q].pc = "insert"}

\* the entry each method pushes, and what it does to the balance
MethodEntry(op, id, amount, refId) ==
    IF op = "addFunds" THEN Txn(id, "TOPUP", amount, "COMPLETED", refId, 0)
    ELSE IF op = "deductFunds"
    THEN Txn(id, "PAYMENT", amount, "COMPLETED", refId, 0)
    ELSE Txn(id, "CASHOUT", amount, "PENDING", refId, 0)

MethodDelta(op, amount) == IF op = "addFunds" THEN amount ELSE -amount

\* addFunds, deductFunds or requestCashOut called with transactionData whose
\* referenceId is ref (0: none given)
MethodCall(p, u, op, amount, ref) ==
    /\ procs[p].op = "idle"
    /\ wallets[u].exists
    /\ Len(wallets[u].transactions)
           + Cardinality({q \in Inserting : procs[q].user = u}) < MaxTxns
    /\ nextRef + Cardinality(Inserting) <= MaxRefs
    /\ procs' = [procs EXCEPT ![p] =
           [Idle EXCEPT !.op = op, !.pc = "insert", !.user = u,
                        !.amount = amount, !.ref = ref]]
    /\ UNCHANGED <<users, wallets, nextRef, payouts, env>>

\* the findOneAndUpdate of the method and its catch block
MethodInsert(p) ==
    /\ procs[p].pc = "insert"
    /\ procs[p].op \in {"addFunds", "deductFunds", "requestCashOut"}
    /\ LET rec == procs[p]
           u == rec.user
           refId == IF rec.ref # 0 THEN rec.ref ELSE nextRef
       IN IF rec.op # "addFunds" /\ ~HasFunds(wallets[u], rec.amount)
          THEN /\ Finish(p, "insufficient")
               /\ UNCHANGED <<wallets, nextRef>>
          ELSE IF DuplicateKey(u, refId)
          THEN /\ IF Retries(rec.op, rec.retryCount)
                  THEN procs' = [procs EXCEPT ![p].retryCount = @ + 1]
                  ELSE Finish(p, "E11000")
               /\ UNCHANGED <<wallets, nextRef>>
          ELSE /\ wallets' = [wallets EXCEPT ![u] =
                      ApplyEntry(@, MethodDelta(rec.op, rec.amount),
                          MethodEntry(rec.op, nextRef, rec.amount, refId))]
               /\ nextRef' = nextRef + 1
               /\ Finish(p, "ok")
    /\ UNCHANGED <<users, payouts, env>>

\* a collection without the unique index on user
UserTakenMutant(u) == FALSE

\* user: { unique: true }: the index holds a wallet document of this user
UserTaken(u) == wallets[u].exists

\* the collection after the insert of a wallet document with balance 0
InsertWallet(w) ==
    IF w.exists THEN [w EXCEPT !.documents = @ + 1] ELSE NewWallet(0)

\* ---------------------------------------------------- routes/wallet.js
\* request bodies of POST and PUT /api/wallet: a balance, or an entry list
BodyBalances == {-100, 0, 500}

\* an entry as a client may write it: the schema asks of amount only that it
\* is a number
BodyEntry == Txn(101, "PAYMENT", -100, "COMPLETED", 101, 0)

Bodies ==
    {[balance |-> b] : b \in BodyBalances}
        \cup {[transactions |-> <<>>], [transactions |-> <<BodyEntry>>]}

\* the schema validators save and runValidators apply: balance min 0
Valid(body) == "balance" \in DOMAIN body => body.balance >= 0

\* the document a body describes, on top of the document w
WithBody(w, body) ==
    [w EXCEPT !.balance = IF "balance" \in DOMAIN body
                          THEN body.balance ELSE @,
              !.transactions = IF "transactions" \in DOMAIN body
                               THEN body.transactions ELSE @]

\* POST /api/wallet: new Wallet({...req.body, user}).save()
PostWallet(p, u, body) ==
    /\ procs[p].op = "idle"
    /\ users[u] # "none"
    /\ LET rec == [Idle EXCEPT !.op = "postWallet", !.user = u]
       IN IF Valid(body) /\ ~UserTaken(u)
          THEN /\ wallets' = [wallets EXCEPT ![u] = WithBody(NewWallet(0), body)]
               /\ procs' = [procs EXCEPT ![p] = Done(rec, "201")]
          ELSE /\ procs' = [procs EXCEPT ![p] = Done(rec, "400")]
               /\ UNCHANGED wallets
    /\ UNCHANGED <<users, nextRef, payouts, env>>

\* PUT /api/wallet/:id: findOneAndUpdate({_id, user}, req.body,
\* {new: true, runValidators: true})
PutWallet(p, u, body) ==
    /\ procs[p].op = "idle"
    /\ users[u] # "none"
    /\ LET rec == [Idle EXCEPT !.op = "putWallet", !.user = u]
       IN IF ~Valid(body)
          THEN /\ procs' = [procs EXCEPT ![p] = Done(rec, "400")]
               /\ UNCHANGED wallets
          ELSE IF ~wallets[u].exists
          THEN /\ procs' = [procs EXCEPT ![p] = Done(rec, "404")]
               /\ UNCHANGED wallets
          ELSE /\ wallets' = [wallets EXCEPT ![u] = WithBody(@, body)]
               /\ procs' = [procs EXCEPT ![p] = Done(rec, "200")]
    /\ UNCHANGED <<users, nextRef, payouts, env>>

\* DELETE /api/wallet/:id: findOneAndDelete({_id, user})
DeleteWallet(p, u) ==
    /\ procs[p].op = "idle"
    /\ users[u] # "none"
    /\ LET rec == [Idle EXCEPT !.op = "deleteWallet", !.user = u]
       IN IF wallets[u].exists
          THEN /\ wallets' = [wallets EXCEPT ![u] = NoWallet]
               /\ procs' = [procs EXCEPT ![p] = Done(rec, "200")]
          ELSE /\ procs' = [procs EXCEPT ![p] = Done(rec, "404")]
               /\ UNCHANGED wallets
    /\ UNCHANGED <<users, nextRef, payouts, env>>

\* ------------------------------------- controllers/walletController.js
\* the user's role as the auth middleware loaded it
IsDriver(u) == users[u] = "driver"

\* initializeWallet: findByUserId, then the save of a new wallet
InitializeWalletStart(p, u) ==
    /\ procs[p].op = "idle"
    /\ users[u] # "none"
    /\ procs' = [procs EXCEPT ![p] =
           IF wallets[u].exists
           THEN Done([Idle EXCEPT !.op = "initializeWallet", !.user = u], "ok")
           ELSE [Idle EXCEPT !.op = "initializeWallet", !.pc = "create",
                             !.user = u]]
    /\ UNCHANGED <<users, wallets, nextRef, payouts, env>>

\* the save of a new Wallet document: the unique index on user rejects a
\* second wallet of the same user
CreateWallet(p, next) ==
    LET u == procs[p].user
    IN IF UserTaken(u)
       THEN /\ Finish(p, "500")
            /\ UNCHANGED wallets
       ELSE /\ wallets' = [wallets EXCEPT ![u] = InsertWallet(@)]
            /\ procs' = [procs EXCEPT ![p] = next]

InitializeWalletCreate(p) ==
    /\ procs[p].op = "initializeWallet"
    /\ procs[p].pc = "create"
    /\ CreateWallet(p, Done(procs[p], "ok"))
    /\ UNCHANGED <<users, nextRef, payouts, env>>

\* Date.now() in `topup_${user._id}_${Date.now()}`: a millisecond of its own,
\* or the millisecond in which another top-up of the same user, still in
\* flight, took its stamp
Stamps(rec) ==
    {nextRef} \cup
    {procs[q].ref : q \in {r \in Procs : /\ procs[r].op = "initiateTopUp"
                                         /\ procs[r].pc = "save"
                                         /\ procs[r].user = rec.user}}

\* initiateTopUp after its wallet lookup: createInvoice either fails (500) or
\* returns the invoice: its id (xenditId) and its external_id, which is the
\* stamp the request sent and becomes the entry's referenceId
InvoiceOutcomes(rec) ==
    {Done(rec, "500")} \cup
    (IF nextRef <= MaxRefs
     THEN {[rec EXCEPT !.pc = "save", !.xid = nextRef, !.ref = st] :
               st \in Stamps(rec)}
     ELSE {})

\* the invoice id is taken when the invoice is created
InvoiceTaken(p) ==
    nextRef' = IF procs'[p].pc = "save" THEN nextRef + 1 ELSE nextRef

\* initiateTopUp: amount validation and findByUserId
InitiateTopUpStart(p, u, amount) ==
    /\ procs[p].op = "idle"
    /\ users[u] # "none"
    /\ LET rec == [Idle EXCEPT !.op = "initiateTopUp", !.user = u,
                               !.amount = amount]
       IN IF amount < 1
          THEN procs' = [procs EXCEPT ![p] = Done(rec, "400")]
          ELSE /\ CanAppend(u)
               /\ IF wallets[u].exists
                  THEN \E r \in InvoiceOutcomes(rec) :
                           procs' = [procs EXCEPT ![p] = r]
                  ELSE procs' = [procs EXCEPT ![p] = [rec EXCEPT !.pc = "create"]]
    /\ InvoiceTaken(p)
    /\ UNCHANGED <<users, wallets, payouts, env>>

InitiateTopUpCreate(p) ==
    /\ procs[p].op = "initiateTopUp"
    /\ procs[p].pc = "create"
    /\ \E r \in InvoiceOutcomes(procs[p]) : CreateWallet(p, r)
    /\ InvoiceTaken(p)
    /\ UNCHANGED <<users, payouts, env>>

\* a save that writes the transaction array back as it was loaded, with the
\* new entry appended: entries pushed since the invoice was taken are lost
InitiateTopUpSaveMutant(p) ==
    /\ procs[p].op = "initiateTopUp"
    /\ procs[p].pc = "save"
    /\ LET u == procs[p].user
           Loaded(txn) == txn.id < procs[p].xid
       IN wallets' = [wallets EXCEPT ![u].transactions =
              Append(SelectSeq(@, Loaded),
                     Txn(procs[p].xid, "TOPUP", procs[p].amount,
                         "PENDING", procs[p].ref, procs[p].xid))]
    /\ Finish(p, "ok")
    /\ UNCHANGED <<users, nextRef, payouts, env>>

\* initiateTopUp: wallet.transactions.push(...) and wallet.save(), which
\* mongoose sends as a $push of the new PENDING entry
InitiateTopUpSave(p) ==
    /\ procs[p].op = "initiateTopUp"
    /\ procs[p].pc = "save"
    /\ LET u == procs[p].user
       IN wallets' = [wallets EXCEPT ![u] =
              ApplyEntry(@, 0, Txn(procs[p].xid, "TOPUP", procs[p].amount,
                                   "PENDING", procs[p].ref, procs[p].xid))]
    /\ Finish(p, "ok")
    /\ UNCHANGED <<users, nextRef, payouts, env>>

\* ---- getWallet
\* a lookup that creates the wallet it does not find
GetWalletMutant(p, u) ==
    /\ procs[p].op = "idle"
    /\ users[u] # "none"
    /\ procs' = [procs EXCEPT ![p] =
           Done([Idle EXCEPT !.op = "getWallet", !.user = u], "200")]
    /\ wallets' = [wallets EXCEPT ![u] =
           IF @.exists THEN @ ELSE NewWallet(0)]
    /\ UNCHANGED <<users, nextRef, payouts, env>>

\* GET wallet: findByUserId, then the balance or the default structure
GetWallet(p, u) ==
    /\ procs[p].op = "idle"
    /\ users[u] # "none"
    /\ procs' = [procs EXCEPT ![p] =
           Done([Idle EXCEPT !.op = "getWallet", !.user = u], "200")]
    /\ UNCHANGED <<users, wallets, nextRef, payouts, env>>

\* ---- getTransactionHistory
\* Array.prototype.sort with (a, b) => dateB - dateA: newest first, and
\* entries of one millisecond in the order they had (the sort is stable).
\* PutNewestFirst places t, the entry that followed those of sorted in the
\* array, behind every entry that is not older than t
PutNewestFirst(sorted, t) ==
    LET notOlder == {i \in DOMAIN sorted : sorted[i].createdAt >= t.createdAt}
        k == Cardinality(notOlder)
    IN SubSeq(sorted, 1, k) \o <<t>> \o SubSeq(sorted, k + 1, Len(sorted))

RECURSIVE SortNewestFirst(_)
SortNewestFirst(s) ==
    IF s = <<>> THEN <<>>
    ELSE PutNewestFirst(SortNewestFirst(SubSeq(s, 1, Len(s) - 1)), s[Len(s)])

\* Array.prototype.slice(skip, skip + limit)
Slice(s, skip, limit) ==
    SubSeq(s, skip + 1, IF skip + limit < Len(s) THEN skip + limit ELSE Len(s))

\* the entry as the listing shows it
Formatted(t) ==
    [id |-> t.id,
     type |-> IF t.type = "TOPUP" THEN "deposit"
              ELSE IF t.type = "CASHOUT" THEN "withdrawal" ELSE "payment",
     amount |-> IF t.amount < 0 THEN -t.amount ELSE t.amount,
     createdAt |-> t.createdAt,
     referenceId |-> t.referenceId]

FormatAll(s) == [i \in DOMAIN s |-> Formatted(s[i])]

\* GET transactions?page=&limit=
GetTransactionHistory(p, u, page, limit) ==
    /\ procs[p].op = "idle"
    /\ users[u] # "none"
    /\ procs' = [procs EXCEPT ![p] =
           [Idle EXCEPT !.op = "getTransactionHistory", !.pc = "done",
                        !.result = "200",
                        !.listing =
                            IF ~wallets[u].exists THEN <<>>
                            ELSE FormatAll(Slice(
                                     SortNewestFirst(wallets[u].transactions),
                                     (page - 1) * limit, limit))]]
    /\ UNCHANGED <<users, wallets, nextRef, payouts, env>>

\* the millisecond of the next write: that of the last entry, or a later one
Clock(w) ==
    LET last == IF w.transactions = <<>> THEN 1
                ELSE w.transactions[Len(w.transactions)].createdAt
    IN {last, last + 1}

\* addFunds with the timestamps mongoose gives the pushed sub-document
AddFundsAt(p, u, amount, now) ==
    /\ procs[p].op = "idle"
    /\ wallets[u].exists
    /\ Len(wallets[u].transactions) < MaxHistory
    /\ now \in Clock(wallets[u])
    /\ wallets' = [wallets EXCEPT ![u] =
           ApplyEntry(@, amount,
               [Txn(nextRef, "TOPUP", amount, "COMPLETED", nextRef, 0)
                    EXCEPT !.createdAt = now])]
    /\ nextRef' = nextRef + 1
    /\ procs' = [procs EXCEPT ![p] =
           Done([Idle EXCEPT !.op = "addFunds", !.user = u], "ok")]
    /\ UNCHANGED <<users, payouts, env>>

\* ---- callbacks
\* a paid test that takes every status but the failed ones for a payment
IsPaidSignalMutant(status) == status \notin {"EXPIRED", "FAILED"}

IsPaidSignal(status) == status \in {"PAID", "COMPLETED"}

IsFailedSignal(status) == status \in {"EXPIRED", "FAILED"}

IsPayoutCompleted(status) == status \in {"COMPLETED", "SUCCESS"}

IsPayoutFailed(status) == status \in {"FAILED", "REJECTED"}

\* handleTopUpCallback's token check: 401 only in production
TopUpTokenBlocked(token) ==
    env.hasToken /\ token # "secret" /\ env.production

\* handleCashOutCallback's token check
IsDevelopmentSimulation(token, simulateWebhooks) ==
    ~env.production /\ (simulateWebhooks \/ token \in {"test_token", "simulation"})

CashOutTokenBlocked(token, simulateWebhooks) ==
    /\ env.hasToken /\ token # "secret"
    /\ ~IsDevelopmentSimulation(token, simulateWebhooks)
    /\ env.production

\* Wallet.findOne({ 'transactions.<field>': value })
WalletsWithRef(ref) ==
    {u \in Users : wallets[u].exists /\
        \E i \in Indexes(u) : wallets[u].transactions[i].referenceId = ref}

WalletsWithXid(xid) ==
    {u \in Users : wallets[u].exists /\
        \E i \in Indexes(u) : wallets[u].transactions[i].xenditId = xid}

SetStatus(w, i, status) ==
    [w EXCEPT !.transactions[i].status = status]

Credit(w, amount) == [w EXCEPT !.balance = @ + amount]

HasId(t, tid) == t.id = tid

IsPending(t) == t.status = "PENDING"

IsCashOut(t) == t.type = "CASHOUT"

IdxOfId(s, tid) == FirstIdx({k \in DOMAIN s : HasId(s[k], tid)})

FirstPending(s) == FirstIdx({k \in DOMAIN s : IsPending(s[k])})

FirstCashOut(s) == FirstIdx({k \in DOMAIN s : IsCashOut(s[k])})

\* the filter { 'transactions._id': tid, 'transactions.status': 'PENDING' }:
\* two independent conditions on the array, each met by any element
PaidFilter(w, tid) ==
    /\ IdxOfId(w.transactions, tid) # 0
    /\ FirstPending(w.transactions) # 0

\* the element 'transactions.$' addresses: the filter has several conditions
\* on the array, and the position is that of the first element matching one
\* of them
PaidPositions(w, tid) ==
    {IdxOfId(w.transactions, tid), FirstPending(w.transactions)}

\* the filter of the cash-out completion, with 'transactions.type': 'CASHOUT'
CompleteFilter(w, tid) ==
    /\ PaidFilter(w, tid)
    /\ FirstCashOut(w.transactions) # 0

CompletePositions(w, tid) ==
    PaidPositions(w, tid) \cup {FirstCashOut(w.transactions)}

\* a lookup that answers 200 when nothing matches
NotFoundMutant(rec) == Done(rec, "already_processed")

\* res.status(404).json({ error: 'Transaction not found' })
NotFound(rec) == Done(rec, "404")

\* handleTopUpCallback up to its conditional update: token check, lookup by
\* xenditId then by referenceId, and the branch on the status it read
TopUpLookup(rec, blocked) ==
    LET byXid == IF rec.xid # 0 THEN WalletsWithXid(rec.xid) ELSE {}
        byRef == IF rec.ref # 0 THEN WalletsWithRef(rec.ref) ELSE {}
        Found(u, i) ==
            LET t == wallets[u].transactions[i]
                r == [rec EXCEPT !.user = u, !.tid = t.id, !.amount = t.amount]
            IN IF t.status = "PENDING" /\ IsPaidSignal(rec.status)
               THEN [r EXCEPT !.pc = "paid"]
               ELSE IF t.status = "PENDING" /\ IsFailedSignal(rec.status)
               THEN [r EXCEPT !.pc = "failed"]
               ELSE Done(r, "already_processed")
    IN IF blocked THEN {Done(rec, "401")}
       ELSE IF rec.xid = 0 /\ rec.ref = 0 THEN {Done(rec, "400")}
       ELSE IF byXid # {}
       THEN {Found(u, LET s == wallets[u].transactions
                      IN FirstIdx({k \in DOMAIN s : s[k].xenditId = rec.xid}))
                : u \in byXid}
       ELSE IF byRef # {}
       THEN {Found(u, LET s == wallets[u].transactions
                      IN FirstIdx({k \in DOMAIN s : s[k].referenceId = rec.ref}))
                : u \in byRef}
       ELSE {NotFound(rec)}

\* a top-up callback arrives; the payload carries the invoice id and the
\* external id of one invoice (both ref), or neither (ref = 0)
TopUpCallback(p, ref, status, token) ==
    /\ procs[p].op = "idle"
    /\ \E r \in TopUpLookup([Idle EXCEPT !.op = "handleTopUpCallback",
                                         !.xid = ref, !.ref = ref,
                                         !.status = status, !.origin = "http",
                                         !.tokenMatch = (token = "secret")],
                            TopUpTokenBlocked(token)) :
           procs' = [procs EXCEPT ![p] = r]
    /\ UNCHANGED <<users, wallets, nextRef, payouts, env>>

\* the conditional findOneAndUpdate of the paid path
ApplyPaid(p, onMiss) ==
    LET u == procs[p].user
        w == wallets[u]
    IN IF PaidFilter(w, procs[p].tid)
       THEN /\ \E i \in PaidPositions(w, procs[p].tid) :
                   wallets' = [wallets EXCEPT ![u] =
                       Credit(SetStatus(w, i, "COMPLETED"), procs[p].amount)]
            /\ Finish(p, IF procs[p].op = "verifyTransaction"
                         THEN "updated" ELSE "payment_completed")
       ELSE /\ procs' = [procs EXCEPT ![p] = onMiss]
            /\ UNCHANGED wallets

TopUpPaid(p) ==
    /\ procs[p].op = "handleTopUpCallback"
    /\ procs[p].pc = "paid"
    /\ ApplyPaid(p, [procs[p] EXCEPT !.pc = "recheck"])
    /\ UNCHANGED <<users, nextRef, payouts, env>>

\* after a missed update: findById and a second look at the entry
TopUpRecheck(p) ==
    /\ procs[p].op = "handleTopUpCallback"
    /\ procs[p].pc = "recheck"
    /\ LET s == wallets[procs[p].user].transactions
           P(t) == t.xenditId = procs[p].xid \/ t.referenceId = procs[p].ref
           i == FirstIdx({k \in DOMAIN s : P(s[k])})
       IN Finish(p, IF i # 0 /\ s[i].status = "COMPLETED"
                    THEN "already_processed" ELSE "500")
    /\ UNCHANGED <<users, wallets, nextRef, payouts, env>>

\* a failed path that takes the amount from the balance
FailTopUpMutant(w, i) ==
    Credit(SetStatus(w, i, "FAILED"), -w.transactions[i].amount)

\* $set: { 'transactions.$.status': 'FAILED' } and nothing else
FailTopUp(w, i) == SetStatus(w, i, "FAILED")

\* the expired/failed path: findOneAndUpdate filtered by the entry _id only
TopUpFailed(p) ==
    /\ procs[p].op = "handleTopUpCallback"
    /\ procs[p].pc = "failed"
    /\ LET u == procs[p].user
           i == IdxOfId(wallets[u].transactions, procs[p].tid)
       IN wallets' = IF i # 0
                     THEN [wallets EXCEPT ![u] = FailTopUp(@, i)]
                     ELSE wallets
    /\ Finish(p, "payment_failed")
    /\ UNCHANGED <<users, nextRef, payouts, env>>

\* a delivery whose handler is scheduled but has not yet read the store: a
\* redelivered top-up callback
TopUpLookupStep(p) ==
    /\ procs[p].op = "handleTopUpCallback"
    /\ procs[p].pc = "lookup"
    /\ \E r \in TopUpLookup(procs[p], FALSE) : procs' = [procs EXCEPT ![p] = r]
    /\ UNCHANGED <<users, wallets, nextRef, payouts, env>>

\* handleCashOutCallback up to its update: token check, lookup of the CASHOUT
\* entry by referenceId, and the branch on the status it read
CashOutLookup(rec, blocked) ==
    LET byRef == IF rec.ref # 0 THEN WalletsWithRef(rec.ref) ELSE {}
        Found(u) ==
            LET s == wallets[u].transactions
                P(t) == t.referenceId = rec.ref /\ t.type = "CASHOUT"
                i == FirstIdx({k \in DOMAIN s : P(s[k])})
                r == [rec EXCEPT !.user = u, !.tid = s[i].id,
                                 !.amount = s[i].amount]
            IN IF i = 0 THEN NotFound(rec)
               ELSE IF s[i].status = "PENDING" /\ IsPayoutCompleted(rec.status)
               THEN [r EXCEPT !.pc = "complete"]
               ELSE IF s[i].status = "PENDING" /\ IsPayoutFailed(rec.status)
               THEN [r EXCEPT !.pc = "fail"]
               ELSE Done(r, "already_processed")
    IN IF blocked THEN {Done(rec, "401")}
       ELSE IF rec.ref = 0 THEN {Done(rec, "400")}
       ELSE IF byRef = {} THEN {NotFound(rec)}
       ELSE {Found(u) : u \in byRef}

\* a payout callback arrives over HTTP
CashOutCallback(p, ref, status, token) ==
    /\ procs[p].op = "idle"
    /\ \E sim \in BOOLEAN :
       \E r \in CashOutLookup([Idle EXCEPT !.op = "handleCashOutCallback",
                                           !.ref = ref, !.status = status,
                                           !.origin = "http",
                                           !.tokenMatch = (token = "secret")],
                              CashOutTokenBlocked(token, sim)) :
           procs' = [procs EXCEPT ![p] = r]
    /\ UNCHANGED <<users, wallets, nextRef, payouts, env>>

\* the token a scheduled delivery carries: the auto-completion of
\* initiateCashOut sends 'immediate_completion', a redelivery the token that
\* passed before
ScheduledBlocked(rec, sim) ==
    rec.origin = "auto" /\ CashOutTokenBlocked("immediate_completion", sim)

CashOutLookupStep(p) ==
    /\ procs[p].op = "handleCashOutCallback"
    /\ procs[p].pc = "lookup"
    /\ \E sim \in BOOLEAN :
       \E r \in CashOutLookup(procs[p], ScheduledBlocked(procs[p], sim)) :
           procs' = [procs EXCEPT ![p] = r]
    /\ UNCHANGED <<users, wallets, nextRef, payouts, env>>

\* a completed path that takes the amount a second time
CompleteHoldMutant(w, i) ==
    Credit(SetStatus(w, i, "COMPLETED"), -w.transactions[i].amount)

\* $set: { 'transactions.$.status': 'COMPLETED', metadata } and no $inc
CompleteHold(w, i) == SetStatus(w, i, "COMPLETED")

\* the completed path: a status flip, conditional on the three array filters
CashOutComplete(p) ==
    /\ procs[p].op = "handleCashOutCallback"
    /\ procs[p].pc = "complete"
    /\ LET u == procs[p].user
           w == wallets[u]
       IN IF CompleteFilter(w, procs[p].tid)
          THEN /\ \E i \in CompletePositions(w, procs[p].tid) :
                      wallets' = [wallets EXCEPT ![u] = CompleteHold(w, i)]
               /\ Finish(p, "cashout_completed")
          ELSE /\ Finish(p, "500")
               /\ UNCHANGED wallets
    /\ UNCHANGED <<users, nextRef, payouts, env>>

\* a failed path that flips the status and gives nothing back
RestoreHoldMutant(w, i, amount) == SetStatus(w, i, "FAILED")

\* what the failed path writes: the status flip and the refund of the hold
RestoreHold(w, i, amount) == Credit(SetStatus(w, i, "FAILED"), amount)

\* the failed path: findOneAndUpdate filtered by the entry _id only
CashOutFail(p) ==
    /\ procs[p].op = "handleCashOutCallback"
    /\ procs[p].pc = "fail"
    /\ LET u == procs[p].user
           i == IdxOfId(wallets[u].transactions, procs[p].tid)
       IN IF i # 0
          THEN /\ wallets' = [wallets EXCEPT ![u] =
                                  RestoreHold(@, i, procs[p].amount)]
               /\ Finish(p, "cashout_failed_refunded")
          ELSE /\ Finish(p, "already_processed")
               /\ UNCHANGED wallets
    /\ UNCHANGED <<users, nextRef, payouts, env>>

\* testSimulateCashoutCallback: outside production it calls
\* handleCashOutCallback with the token 'test_token'
TestSimulateCashoutCallback(p, ref, status) ==
    /\ procs[p].op = "idle"
    /\ IF env.production
       THEN procs' = [procs EXCEPT ![p] =
                Done([Idle EXCEPT !.op = "testSimulateCashoutCallback"], "403")]
       ELSE \E sim \in BOOLEAN :
            \E r \in CashOutLookup([Idle EXCEPT !.op = "handleCashOutCallback",
                                                !.ref = ref, !.status = status,
                                                !.origin = "test"],
                                   CashOutTokenBlocked("test_token", sim)) :
                procs' = [procs EXCEPT ![p] = r]
    /\ UNCHANGED <<users, wallets, nextRef, payouts, env>>

\* ---- initiateCashOut
\* a validation without the floor of 100
CashOutValidationMutant(u, amount, bankOk) ==
    IF ~IsDriver(u) THEN "403"
    ELSE IF amount < 1 THEN "400"
    ELSE IF ~bankOk THEN "400"
    ELSE "none"

\* the request validation before the wallet is read; "none" when it passes
CashOutValidation(u, amount, bankOk) ==
    IF ~IsDriver(u) THEN "403"
    ELSE IF amount < 1 THEN "400"
    ELSE IF amount < MinCashOut THEN "below_minimum"
    ELSE IF ~bankOk THEN "400"
    ELSE "none"

InitiateCashOutStart(p, u, amount, bankOk) ==
    /\ procs[p].op = "idle"
    /\ users[u] # "none"
    /\ LET rec == [Idle EXCEPT !.op = "initiateCashOut", !.user = u,
                               !.amount = amount]
           v == CashOutValidation(u, amount, bankOk)
       IN IF v # "none"
          THEN procs' = [procs EXCEPT ![p] = Done(rec, v)]
          ELSE /\ CanAppend(u)
               /\ procs' = [procs EXCEPT ![p] =
                      IF ~wallets[u].exists THEN [rec EXCEPT !.pc = "create"]
                      ELSE IF wallets[u].balance < amount
                      THEN Done(rec, "insufficient")
                      ELSE [rec EXCEPT !.pc = "payout"]]
    /\ UNCHANGED <<users, wallets, nextRef, payouts, env>>

\* the wallet did not exist: it is created empty, so the balance check fails
InitiateCashOutCreate(p) ==
    /\ procs[p].op = "initiateCashOut"
    /\ procs[p].pc = "create"
    /\ CreateWallet(p, Done(procs[p], "insufficient"))
    /\ UNCHANGED <<users, nextRef, payouts, env>>

\* a handler that takes the hold before it knows the payout's outcome
PayoutFailsMutant(p) ==
    /\ wallets' = [wallets EXCEPT ![procs[p].user] =
                       CashOutHold(@, procs[p].amount, nextRef)]
    /\ Finish(p, "500:payout_failed")
    /\ UNCHANGED <<nextRef, payouts>>

\* xenditService.createPayout fails or times out: the handler throws
PayoutFails(p) ==
    /\ Finish(p, "500:payout_failed")
    /\ UNCHANGED <<wallets, nextRef, payouts>>

\* xenditService.createPayout returns the payout with its reference_id
PayoutAccepted(p) ==
    /\ nextRef <= MaxRefs
    /\ payouts' = payouts \cup {nextRef}
    /\ nextRef' = nextRef + 1
    /\ procs' = [procs EXCEPT ![p].pc = "hold", ![p].ref = nextRef]
    /\ UNCHANGED wallets

InitiateCashOutPayout(p) ==
    /\ procs[p].op = "initiateCashOut"
    /\ procs[p].pc = "payout"
    /\ (PayoutFails(p) \/ PayoutAccepted(p))
    /\ UNCHANGED <<users, env>>

\* wallet.requestCashOut with the payout reference; on success the response
\* is sent and setImmediate schedules handleCashOutCallback with COMPLETED
InitiateCashOutHold(p) ==
    /\ procs[p].op = "initiateCashOut"
    /\ procs[p].pc = "hold"
    /\ LET u == procs[p].user
       IN IF HasFunds(wallets[u], procs[p].amount)
          THEN /\ wallets' = [wallets EXCEPT ![u] =
                      CashOutHold(@, procs[p].amount, procs[p].ref)]
               /\ procs' = [procs EXCEPT ![p] =
                      [Idle EXCEPT !.op = "handleCashOutCallback",
                                   !.pc = "lookup", !.ref = procs[p].ref,
                                   !.status = "COMPLETED", !.origin = "auto",
                                   !.result = "completed"]]
          ELSE /\ Finish(p, "500:insufficient")
               /\ UNCHANGED wallets
    /\ UNCHANGED <<users, nextRef, payouts, env>>

\* ---- verifyTransaction
\* lookup by referenceId or xenditId, then xenditService.getInvoice for a
\* PENDING entry that has a xenditId; paid tells what the provider answers
VerifyTransaction(p, ref, paid) ==
    /\ procs[p].op = "idle"
    /\ LET rec == [Idle EXCEPT !.op = "verifyTransaction", !.ref = ref,
                               !.xid = ref]
           found == IF ref = 0 THEN {}
                    ELSE WalletsWithRef(ref) \cup WalletsWithXid(ref)
           After(u) ==
               LET s == wallets[u].transactions
                   P(t) == t.referenceId = ref \/ t.xenditId = ref
                   t == s[FirstIdx({k \in DOMAIN s : P(s[k])})]
               IN IF t.status = "COMPLETED" THEN Done(rec, "completed")
                  ELSE IF t.status = "PENDING" /\ t.xenditId # 0 /\ paid
                  THEN [rec EXCEPT !.pc = "paid", !.user = u, !.tid = t.id,
                                   !.amount = t.amount]
                  ELSE Done(rec, "unchanged")
       IN IF ref = 0 THEN procs' = [procs EXCEPT ![p] = Done(rec, "400")]
          ELSE IF found = {} THEN procs' = [procs EXCEPT ![p] = Done(rec, "404")]
          ELSE \E u \in found : procs' = [procs EXCEPT ![p] = After(u)]
    /\ UNCHANGED <<users, wallets, nextRef, payouts, env>>

VerifyPaid(p) ==
    /\ procs[p].op = "verifyTransaction"
    /\ procs[p].pc = "paid"
    /\ ApplyPaid(p, Done(procs[p], "unchanged"))
    /\ UNCHANGED <<users, nextRef, payouts, env>>

\* ---- the provider
\* the provider delivers again a callback it already got a success for
Redeliver(p) ==
    /\ procs[p].pc = "done"
    /\ procs[p].op \in {"handleTopUpCallback", "handleCashOutCallback"}
    /\ procs[p].origin = "http"
    /\ procs' = [procs EXCEPT ![p].pc = "lookup", ![p].replay = TRUE,
                              ![p].result = "none"]
    /\ UNCHANGED <<users, wallets, nextRef, payouts, env>>

\* the response has been sent and the worker takes the next request
Return(p) ==
    /\ procs[p].pc = "done"
    /\ procs' = [procs EXCEPT ![p] = Idle]
    /\ UNCHANGED <<users, wallets, nextRef, payouts, env>>

\* no response is waiting to be sent
Quiet == \A p \in Procs : procs[p].pc # "done"

WalletCreation ==
    \/ Quiet /\ \E u \in Users, role \in {"commuter", "driver"} : Register(u, role)
    \/ Quiet /\ \E p \in Procs, u \in Users : InitializeWalletStart(p, u)
    \/ Quiet /\ \E p \in Procs : InitializeWalletCreate(p)

WalletMethods ==
    \/ Quiet /\ \E p \in Procs, u \in Users, a \in AmountInputs : AddFunds(p, u, a)
    \/ Quiet /\ \E p \in Procs, u \in Users, a \in AmountInputs : DeductStart(p, u, a)
    \/ Quiet /\ \E p \in Procs : DeductCheck(p)
    \/ Quiet /\ \E p \in Procs : DeductUpdate(p)
    \/ Quiet /\ \E p \in Procs, u \in Users, a \in AmountInputs : RequestCashOut(p, u, a)

TopUpFlow ==
    \/ Quiet /\ \E p \in Procs, u \in Users, a \in AmountInputs :
           InitiateTopUpStart(p, u, a)
    \/ Quiet /\ \E p \in Procs : InitiateTopUpCreate(p)
    \/ Quiet /\ \E p \in Procs : InitiateTopUpSave(p)
    \/ Quiet /\ \E p \in Procs, ref \in RefInputs, status \in TopUpStatuses,
          token \in Tokens : TopUpCallback(p, ref, status, token)
    \/ Quiet /\ \E p \in Procs : TopUpLookupStep(p)
    \/ Quiet /\ \E p \in Procs : TopUpPaid(p)
    \/ Quiet /\ \E p \in Procs : TopUpRecheck(p)
    \/ Quiet /\ \E p \in Procs : TopUpFailed(p)
    \/ Quiet /\ \E p \in Procs, ref \in RefInputs, paid \in BOOLEAN :
           VerifyTransaction(p, ref, paid)
    \/ Quiet /\ \E p \in Procs : VerifyPaid(p)

CashOutCallbacks ==
    \/ Quiet /\ \E p \in Procs, ref \in RefInputs, status \in PayoutStatuses,
          token \in Tokens : CashOutCallback(p, ref, status, token)
    \/ Quiet /\ \E p \in Procs : CashOutLookupStep(p)
    \/ Quiet /\ \E p \in Procs : CashOutComplete(p)
    \/ Quiet /\ \E p \in Procs : CashOutFail(p)

CashOutFlow ==
    \/ Quiet /\ \E p \in Procs, u \in Users, a \in AmountInputs, bankOk \in BOOLEAN :
           InitiateCashOutStart(p, u, a, bankOk)
    \/ Quiet /\ \E p \in Procs : InitiateCashOutCreate(p)
    \/ Quiet /\ \E p \in Procs : InitiateCashOutPayout(p)
    \/ Quiet /\ \E p \in Procs : InitiateCashOutHold(p)
    \/ Quiet /\ \E p \in Procs, ref \in RefInputs, status \in PayoutStatuses :
           TestSimulateCashoutCallback(p, ref, status)

Responses ==
    \/ \E p \in Procs : Return(p)
    \/ \E p \in Procs : Redeliver(p)

\* the wallet engine with its handlers interleaving at every await; a
\* response is sent before the next handler step is taken
Next ==
    \/ WalletCreation
    \/ WalletMethods
    \/ TopUpFlow
    \/ CashOutCallbacks
    \/ CashOutFlow
    \/ Responses

Spec == Init /\ [][Next]_vars

\* ---- cash-out in any deployment: initiateCashOut with its scheduled
\* auto-completion, the payout callbacks and the test endpoint, on wallets
\* funded by registration or addFunds
NextCashOut ==
    \/ Quiet /\ \E u \in Users, role \in {"commuter", "driver"} :
           Register(u, role)
    \/ Quiet /\ \E p \in Procs, u \in Users, a \in Amounts : AddFunds(p, u, a)
    \/ CashOutFlow
    \/ CashOutCallbacks
    \/ \E p \in Procs : Return(p)

SpecCashOut == InitAnyEnv /\ [][NextCashOut]_vars

\* ---- credits alone, through wallets created at registration or lazily
NextCredits ==
    \/ WalletCreation
    \/ Quiet /\ \E p \in Procs, u \in Users, a \in AmountInputs : AddFunds(p, u, a)
    \/ \E p \in Procs : Return(p)

SpecCredits == Init /\ [][NextCredits]_vars

\* ---- the wallet methods alone, called concurrently
NextMethods ==
    \/ WalletCreation
    \/ WalletMethods
    \/ \E p \in Procs : Return(p)

SpecMethods == Init /\ [][NextMethods]_vars

\* ---- two wallets and callers that bring their own referenceId
TwoUsers == {"u1", "u2"}

SuppliedRefs == {0, 101}

InitCollision ==
    /\ users = [u \in TwoUsers |-> "driver"]
    /\ wallets = [u \in TwoUsers |-> NewWallet(RegistrationBonus)]
    /\ procs = [p \in 1..NumProcs |-> Idle]
    /\ nextRef = 1
    /\ payouts = {}
    /\ env = [production |-> TRUE, hasToken |-> TRUE]

NextCollision ==
    \/ \E p \in Procs, u \in TwoUsers, a \in {MinCashOut}, ref \in SuppliedRefs,
          op \in {"addFunds", "deductFunds", "requestCashOut"} :
           MethodCall(p, u, op, a, ref)
    \/ \E p \in Procs : MethodInsert(p)
    \/ \E p \in Procs : Return(p)

SpecCollision == InitCollision /\ [][NextCollision]_vars

\* ---- the two callback entrypoints in any deployment, one request at a
\* time, on entries left by initiateTopUp and requestCashOut
InitCallbacks ==
    /\ users = [u \in Users |-> "none"]
    /\ wallets = [u \in Users |-> NoWallet]
    /\ procs = [p \in {1} |-> Idle]
    /\ nextRef = 1
    /\ payouts = {}
    /\ env \in [production : BOOLEAN, hasToken : BOOLEAN]

NextCallbacks ==
    \/ Quiet /\ \E u \in Users, role \in {"commuter", "driver"} :
           Register(u, role)
    \/ Quiet /\ \E p \in Procs, u \in Users, a \in Amounts :
           InitiateTopUpStart(p, u, a)
    \/ Quiet /\ \E p \in Procs : InitiateTopUpCreate(p)
    \/ Quiet /\ \E p \in Procs : InitiateTopUpSave(p)
    \/ Quiet /\ \E p \in Procs, u \in Users, a \in Amounts :
           RequestCashOut(p, u, a)
    \/ Quiet /\ \E p \in Procs, ref \in RefInputs, status \in TopUpStatuses,
          token \in Tokens : TopUpCallback(p, ref, status, token)
    \/ Quiet /\ \E p \in Procs : TopUpPaid(p)
    \/ Quiet /\ \E p \in Procs : TopUpFailed(p)
    \/ Quiet /\ \E p \in Procs, ref \in RefInputs, status \in PayoutStatuses,
          token \in Tokens : CashOutCallback(p, ref, status, token)
    \/ Quiet /\ \E p \in Procs : CashOutComplete(p)
    \/ Quiet /\ \E p \in Procs : CashOutFail(p)
    \/ \E p \in Procs : Return(p)

SpecCallbacks == InitCallbacks /\ [][NextCallbacks]_vars

\* ---- every handler that creates the wallet lazily, concurrently; a
\* driver's wallet holds no money here, so a cash-out ends at its balance check
NextCreation ==
    \/ WalletCreation
    \/ Quiet /\ \E p \in Procs, u \in Users, a \in Amounts :
           InitiateTopUpStart(p, u, a)
    \/ Quiet /\ \E p \in Procs : InitiateTopUpCreate(p)
    \/ Quiet /\ \E p \in Procs : InitiateTopUpSave(p)
    \/ Quiet /\ \E p \in Procs, u \in Users, a \in Amounts :
           InitiateCashOutStart(p, u, a, TRUE)
    \/ Quiet /\ \E p \in Procs : InitiateCashOutCreate(p)
    \/ \E p \in Procs : Return(p)

SpecCreation == Init /\ [][NextCreation]_vars

\* ---- the wallet routes next to the wallet methods
NextRoutes ==
    \/ Quiet /\ \E u \in Users, role \in {"commuter", "driver"} :
           Register(u, role)
    \/ Quiet /\ \E p \in Procs, u \in Users, a \in Amounts : AddFunds(p, u, a)
    \/ Quiet /\ \E p \in Procs, u \in Users, a \in Amounts :
           RequestCashOut(p, u, a)
    \/ Quiet /\ \E p \in Procs, u \in Users, body \in Bodies :
           PostWallet(p, u, body)
    \/ Quiet /\ \E p \in Procs, u \in Users, body \in Bodies :
           PutWallet(p, u, body)
    \/ Quiet /\ \E p \in Procs, u \in Users : DeleteWallet(p, u)
    \/ \E p \in Procs : Return(p)

SpecRoutes == Init /\ [][NextRoutes]_vars

\* ---- top-ups alone: invoices, their callbacks and verifyTransaction
NextTopUp ==
    \/ WalletCreation
    \/ TopUpFlow
    \/ Responses

SpecTopUp == Init /\ [][NextTopUp]_vars

\* ---- holds taken by requestCashOut and the payout callbacks that settle
\* them, delivered concurrently
NextPayouts ==
    \/ Quiet /\ \E u \in Users, role \in {"commuter", "driver"} :
           Register(u, role)
    \/ Quiet /\ \E p \in Procs, u \in Users, a \in Amounts :
           RequestCashOut(p, u, a)
    \/ Quiet /\ \E p \in Procs, ref \in RefInputs, status \in PayoutStatuses,
          token \in Tokens : CashOutCallback(p, ref, status, token)
    \/ Quiet /\ \E p \in Procs : CashOutComplete(p)
    \/ Quiet /\ \E p \in Procs : CashOutFail(p)
    \/ \E p \in Procs : Return(p)

SpecPayouts == Init /\ [][NextPayouts]_vars

\* ---- N concurrent deductFunds(A) on a wallet holding exactly (N-1)*A
Debitor(u, amount) ==
    [Idle EXCEPT !.op = "deductFunds", !.pc = "check", !.user = u,
                 !.amount = amount]

InitDebit ==
    \E n \in 2..MaxDebitors, a \in Amounts, u \in Users :
        /\ users = [v \in Users |-> "commuter"]
        /\ wallets = [v \in Users |->
               IF v = u THEN NewWallet((n - 1) * a) ELSE NoWallet]
        /\ procs = [p \in 1..n |-> Debitor(u, a)]
        /\ nextRef = 1
        /\ payouts = {}
        /\ env = [production |-> TRUE, hasToken |-> TRUE]

NextDebit ==
    \/ \E p \in Procs : DeductCheck(p)
    \/ \E p \in Procs : DeductUpdate(p)

SpecDebit == InitDebit /\ [][NextDebit]_vars

\* ---- one request at a time: holds and payout callbacks on the wallet of a
\* newly registered commuter
InitRoundTrip ==
    /\ users = [u \in Users |-> "commuter"]
    /\ wallets = [u \in Users |-> NewWallet(RegistrationBonus)]
    /\ procs = [p \in {1} |-> Idle]
    /\ nextRef = 1
    /\ payouts = {}
    /\ env = [production |-> TRUE, hasToken |-> TRUE]

NextRoundTrip ==
    \/ \E p \in Procs, u \in Users, a \in Amounts : RequestCashOut(p, u, a)
    \/ \E p \in Procs, ref \in RefInputs, status \in PayoutStatuses,
          token \in Tokens : CashOutCallback(p, ref, status, token)
    \/ \E p \in Procs : CashOutComplete(p)
    \/ \E p \in Procs : CashOutFail(p)
    \/ \E p \in Procs : Return(p)

SpecRoundTrip == InitRoundTrip /\ [][NextRoundTrip]_vars

\* ---- the history listing of a wallet that receives credits, some of
\* them within one millisecond
Pages == {1, 2}

Limits == {2, 50}

NextHistory ==
    \/ \E p \in Procs, u \in Users, a \in Amounts, now \in 1..(MaxHistory + 1) :
           AddFundsAt(p, u, a, now)
    \/ \E p \in Procs, u \in Users, page \in Pages, limit \in Limits :
           GetTransactionHistory(p, u, page, limit)
    \/ \E p \in Procs : Return(p)

SpecHistory == InitRoundTrip /\ [][NextHistory]_vars

\* ---- the read paths next to top-ups and their callbacks, one request at
\* a time
NextReads ==
    \/ Quiet /\ \E u \in Users, role \in {"commuter", "driver"} :
           Register(u, role)
    \/ Quiet /\ \E p \in Procs, u \in Users, a \in Amounts :
           InitiateTopUpStart(p, u, a)
    \/ Quiet /\ \E p \in Procs : InitiateTopUpCreate(p)
    \/ Quiet /\ \E p \in Procs : InitiateTopUpSave(p)
    \/ Quiet /\ \E p \in Procs, ref \in RefInputs, status \in TopUpStatuses,
          token \in Tokens : TopUpCallback(p, ref, status, token)
    \/ Quiet /\ \E p \in Procs : TopUpPaid(p)
    \/ Quiet /\ \E p \in Procs : TopUpFailed(p)
    \/ Quiet /\ \E p \in Procs, u \in Users : GetWallet(p, u)
    \/ Quiet /\ \E p \in Procs, u \in Users, page \in Pages, limit \in Limits :
           GetTransactionHistory(p, u, page, limit)
    \/ Quiet /\ \E p \in Procs, ref \in RefInputs, paid \in BOOLEAN :
           VerifyTransaction(p, ref, paid)
    \/ Quiet /\ \E p \in Procs : VerifyPaid(p)
    \/ \E p \in Procs : Return(p)

SpecReads == InitCallbacks /\ [][NextReads]_vars

\* ------------------------------------------------------ routes/rides.js
\* rides with paymentMethod 'wallet' between one commuter and one driver; a
\* ride document is the record of the request that works on it: pc is
\* ride.status (and the position inside POST /:id/complete), status is
\* ride.paymentStatus, amount is ride.fare
Passenger == "u1"

Driver == "u2"

RidesInFlight == {p \in Procs : procs[p].op = "ride" /\ procs[p].pc # "done"}

\* PATCH /:id/accept: the passenger's wallet must exist and cover the fare
AcceptRide(p, fare) ==
    /\ procs[p].op = "idle"
    /\ nextRef + 2 * Cardinality(RidesInFlight) + 1 <= 2 * MaxTxns
    /\ IF ~wallets[Passenger].exists
       THEN Finish(p, "wallet_not_found")
       ELSE IF wallets[Passenger].balance < fare
       THEN Finish(p, "insufficient")
       ELSE procs' = [procs EXCEPT ![p] =
                [Idle EXCEPT !.op = "ride", !.pc = "accepted",
                             !.ride = nextRef * NumProcs + p,
                             !.user = Passenger, !.driver = Driver,
                             !.amount = fare, !.status = "pending"]]
    /\ UNCHANGED <<users, wallets, nextRef, payouts, env>>

\* a second POST /:id/complete for the ride request p is completing:
\* Ride.findById still returns status 'accepted' and paymentStatus 'pending',
\* because p has not yet saved the ride
CompleteRideTwice(q, p) ==
    /\ procs[q].op = "idle"
    /\ procs[p].op = "ride"
    /\ procs[p].pc # "done"
    /\ nextRef + 2 * Cardinality(RidesInFlight) + 1 <= 2 * MaxTxns
    /\ procs' = [procs EXCEPT ![q] =
           [procs[p] EXCEPT !.pc = "accepted", !.status = "pending",
                            !.ref = 0, !.driverRef = 0]]
    /\ UNCHANGED <<users, wallets, nextRef, payouts, env>>

\* POST /:id/complete up to the deduction: findByUserId of the passenger and
\* the comparison of the loaded balance with the fare
CompleteRideStart(p) ==
    /\ procs[p].op = "ride"
    /\ procs[p].pc = "accepted"
    /\ IF ~wallets[procs[p].user].exists
       THEN /\ wallets' = [wallets EXCEPT ![procs[p].user] = InsertWallet(@)]
            /\ procs' = [procs EXCEPT ![p].pc = "save"]
       ELSE /\ procs' = [procs EXCEPT ![p].pc =
                IF wallets[procs[p].user].balance < procs[p].amount
                THEN "save" ELSE "deduct"]
            /\ UNCHANGED wallets
    /\ UNCHANGED <<users, nextRef, payouts, env>>

\* passengerWallet.deductFunds(ride.fare, {type: 'PAYMENT', referenceId});
\* its error leaves paymentStatus 'pending' and is swallowed
CompleteRideDeduct(p) ==
    /\ procs[p].op = "ride"
    /\ procs[p].pc = "deduct"
    /\ LET u == procs[p].user
           fare == procs[p].amount
       IN IF HasFunds(wallets[u], fare)
          THEN /\ wallets' = [wallets EXCEPT ![u] =
                      ApplyEntry(@, -fare,
                          [Txn(nextRef, "PAYMENT", fare, "COMPLETED", nextRef, 0)
                              EXCEPT !.rideId = procs[p].ride])]
               /\ nextRef' = nextRef + 1
               /\ procs' = [procs EXCEPT ![p].pc = "driver", ![p].ref = nextRef]
          ELSE /\ procs' = [procs EXCEPT ![p].pc = "save"]
               /\ UNCHANGED <<wallets, nextRef>>
    /\ UNCHANGED <<users, payouts, env>>

\* findByUserId of the driver
CompleteRideDriver(p) ==
    /\ procs[p].op = "ride"
    /\ procs[p].pc = "driver"
    /\ procs' = [procs EXCEPT ![p].pc =
           IF wallets[procs[p].driver].exists THEN "credit" ELSE "create"]
    /\ UNCHANGED <<users, wallets, nextRef, payouts, env>>

\* saveWithRepair of a new driver wallet; the duplicate key on user is not a
\* referenceId error: it is rethrown and swallowed by the route
CompleteRideCreate(p) ==
    /\ procs[p].op = "ride"
    /\ procs[p].pc = "create"
    /\ IF UserTaken(procs[p].driver)
       THEN /\ procs' = [procs EXCEPT ![p].pc = "save"]
            /\ UNCHANGED wallets
       ELSE /\ wallets' = [wallets EXCEPT ![procs[p].driver] = InsertWallet(@)]
            /\ procs' = [procs EXCEPT ![p].pc = "credit"]
    /\ UNCHANGED <<users, nextRef, payouts, env>>

\* driverWallet.addFunds(ride.fare, {type: 'TOPUP', referenceId}) and
\* ride.paymentStatus = 'completed'
CompleteRideCredit(p) ==
    /\ procs[p].op = "ride"
    /\ procs[p].pc = "credit"
    /\ wallets' = [wallets EXCEPT ![procs[p].driver] =
           ApplyEntry(@, procs[p].amount,
               [Txn(nextRef, "TOPUP", procs[p].amount, "COMPLETED", nextRef, 0)
                   EXCEPT !.rideId = procs[p].ride])]
    /\ nextRef' = nextRef + 1
    /\ procs' = [procs EXCEPT ![p].pc = "save", ![p].driverRef = nextRef,
                              ![p].status = "completed"]
    /\ UNCHANGED <<users, payouts, env>>

\* ride.status = 'completed'; ride.save()
CompleteRideSave(p) ==
    /\ procs[p].op = "ride"
    /\ procs[p].pc = "save"
    /\ procs' = [procs EXCEPT ![p].pc = "done", ![p].result = "ride_completed"]
    /\ UNCHANGED <<users, wallets, nextRef, payouts, env>>

InitRides ==
    /\ users = [u \in TwoUsers |-> IF u = Driver THEN "driver" ELSE "commuter"]
    /\ wallets = [u \in TwoUsers |->
           IF u = Driver THEN NoWallet ELSE NewWallet(RegistrationBonus)]
    /\ procs = [p \in 1..NumProcs |-> Idle]
    /\ nextRef = 1
    /\ payouts = {}
    /\ env = [production |-> TRUE, hasToken |-> TRUE]

NextRides ==
    \/ \E p \in Procs, fare \in Amounts : AcceptRide(p, fare)
    \/ \E q, p \in Procs : CompleteRideTwice(q, p)
    \/ \E p \in Procs : CompleteRideStart(p)
    \/ \E p \in Procs : CompleteRideDeduct(p)
    \/ \E p \in Procs : CompleteRideDriver(p)
    \/ \E p \in Procs : CompleteRideCreate(p)
    \/ \E p \in Procs : CompleteRideCredit(p)
    \/ \E p \in Procs : CompleteRideSave(p)
    \/ \E p \in Procs : Return(p)

SpecRides == InitRides /\ [][NextRides]_vars

\* ------------------------------- Wallet.js: fixNullTransactionReferenceIds
\* { $literal: '$$txn.<field>' }: the string itself, not the field's value;
\* in a field the model writes as a number the string is written 0 - 1
LiteralString == 0 - 1

\* the object $cond yields for an entry whose referenceId is null: every
\* listed field a $literal, no _id, and referenceId overridden by
\* { $concat: ['fixed_', { $toString: '$$txn._id' }] }, one string per _id,
\* written as the negative of the id
RepairedEntry(txn) ==
    [id |-> 0, type |-> "$$txn.type", amount |-> LiteralString,
     status |-> "$$txn.status", referenceId |-> 0 - txn.id,
     xenditId |-> LiteralString, createdAt |-> LiteralString,
     rideId |-> LiteralString]

\* updateMany with the filter { 'transactions.referenceId': null } and the
\* pipeline $set transactions: $map with $cond on
\* $eq: ['$$txn.referenceId', null]
FixNull(ws) ==
    [u \in DOMAIN ws |->
        [ws[u] EXCEPT !.transactions =
            [i \in 1..Len(@) |->
                IF @[i].referenceId = 0 THEN RepairedEntry(@[i]) ELSE @[i]]]]

FixNullTransactionReferenceIds(p) ==
    /\ procs[p].op = "idle"
    /\ wallets' = FixNull(wallets)
    /\ procs' = [procs EXCEPT ![p] =
           Done([Idle EXCEPT !.op = "fixNullTransactionReferenceIds"], "fixed")]
    /\ UNCHANGED <<users, nextRef, payouts, env>>

\* wallets as older versions and the wallet routes left them: entries with
\* and without a referenceId; _ids differ between the wallets
LegacyWallets(u) ==
    LET shapes == [kind : {<<"TOPUP", "COMPLETED">>, <<"CASHOUT", "PENDING">>},
                   hasRef : BOOLEAN]
        firstId == IF u = "u1" THEN 0 ELSE MaxTxns
        entry(id, shape) ==
            Txn(id, shape.kind[1], MinCashOut, shape.kind[2],
                IF shape.hasRef THEN id ELSE 0, 0)
    IN UNION {{[NewWallet(RegistrationBonus) EXCEPT !.transactions =
                   [i \in 1..n |-> entry(firstId + i, list[i])]] :
                 list \in [1..n -> shapes]} : n \in 0..MaxTxns}

InitRepair ==
    /\ users = [u \in TwoUsers |-> "driver"]
    /\ wallets \in [TwoUsers -> UNION {LegacyWallets(u) : u \in TwoUsers}]
    /\ \A u \in TwoUsers : wallets[u] \in LegacyWallets(u)
    /\ procs = [p \in {1} |-> Idle]
    /\ nextRef = 1
    /\ payouts = {}
    /\ env = [production |-> TRUE, hasToken |-> TRUE]

NextRepair ==
    \/ \E p \in Procs : FixNullTransactionReferenceIds(p)
    \/ \E p \in Procs : Return(p)

SpecRepair == InitRepair /\ [][NextRepair]_vars

\* --------------------------------------------- Wallet.js: saveWithRepair
\* a loop that tries once more than maxRetries allows
SaveRetriesMutant(retryCount) == retryCount <= MaxRetries

\* if (retryCount < maxRetries)
SaveRetries(retryCount) == retryCount < MaxRetries

\* the duplicate key errors the insert of u's new wallet document, which has
\* no entries, can meet: the unique index on user, and an index on
\* transactions.referenceId in which another document holds the null key
SaveErrors(u) ==
    {index \in {"user", "transactions.referenceId"} :
        \/ index = "user" /\ UserTaken(u)
        \/ /\ index = "transactions.referenceId"
           /\ env.refIndex
           /\ \E v \in DOMAIN wallets :
                  /\ wallets[v].exists
                  /\ \/ wallets[v].transactions = <<>>
                     \/ \E i \in Indexes(v) :
                            wallets[v].transactions[i].referenceId = 0}

\* a caller found no wallet of u, built one and calls saveWithRepair()
SaveWithRepairStart(p, u) ==
    /\ procs[p].op = "idle"
    /\ ~wallets[u].exists
    /\ procs' = [procs EXCEPT ![p] =
           [Idle EXCEPT !.op = "saveWithRepair", !.pc = "save", !.user = u]]
    /\ UNCHANGED <<users, wallets, nextRef, payouts, env>>

\* await this.save() and the catch block up to its first await
SaveAttempt(p) ==
    /\ procs[p].op = "saveWithRepair"
    /\ procs[p].pc = "save"
    /\ LET u == procs[p].user
           retryCount == procs[p].retryCount
       IN IF SaveErrors(u) = {}
          THEN /\ wallets' = [wallets EXCEPT ![u] = InsertWallet(@)]
               /\ Finish(p, "ok")
          ELSE /\ \E index \in SaveErrors(u) :
                      IF index # "transactions.referenceId"
                      THEN Finish(p, "E11000 user")
                      ELSE IF retryCount = 0
                      THEN procs' = [procs EXCEPT ![p].pc = "repair"]
                      ELSE IF retryCount = 1
                      THEN procs' = [procs EXCEPT ![p].pc = "drop"]
                      ELSE IF SaveRetries(retryCount)
                      THEN procs' = [procs EXCEPT ![p].pc = "wait"]
                      ELSE Finish(p, "E11000 transactions.referenceId")
               /\ UNCHANGED wallets
    /\ UNCHANGED <<users, nextRef, payouts, env>>

\* the delay and the recursive call with retryCount + 1
SaveAgain(p) ==
    IF SaveRetries(procs[p].retryCount)
    THEN procs' = [procs EXCEPT ![p].pc = "save", ![p].retryCount = @ + 1]
    ELSE Finish(p, "E11000 transactions.referenceId")

\* retryCount === 0: fixNullTransactionReferenceIds, then the retry
SaveRepair(p) ==
    /\ procs[p].op = "saveWithRepair"
    /\ procs[p].pc = "repair"
    /\ wallets' = FixNull(wallets)
    /\ SaveAgain(p)
    /\ UNCHANGED <<users, nextRef, payouts, env>>

\* retryCount === 1: dropIndex of the index on transactions.referenceId,
\* which the store may refuse ("Could not drop index"), then the retry
SaveDropIndex(p) ==
    /\ procs[p].op = "saveWithRepair"
    /\ procs[p].pc = "drop"
    /\ \E dropped \in BOOLEAN :
           env' = [env EXCEPT !.refIndex = @ /\ ~dropped]
    /\ SaveAgain(p)
    /\ UNCHANGED <<users, wallets, nextRef, payouts>>

\* later failures: the retry alone
SaveWait(p) ==
    /\ procs[p].op = "saveWithRepair"
    /\ procs[p].pc = "wait"
    /\ SaveAgain(p)
    /\ UNCHANGED <<users, wallets, nextRef, payouts, env>>

\* u1 has no wallet yet; u2's wallet is any legacy wallet; refIndex: the
\* collection has an index on transactions.referenceId that holds null keys
InitSave ==
    /\ users = [u \in TwoUsers |-> "driver"]
    /\ wallets \in [TwoUsers -> {NoWallet} \cup LegacyWallets("u2")]
    /\ wallets["u1"] = NoWallet
    /\ wallets["u2"] \in LegacyWallets("u2")
    /\ procs = [p \in 1..NumProcs |-> Idle]
    /\ nextRef = 1
    /\ payouts = {}
    /\ env \in [production : {TRUE}, hasToken : {TRUE}, refIndex : BOOLEAN]

NextSave ==
    \/ \E p \in Procs : SaveWithRepairStart(p, "u1")
    \/ \E p \in Procs : SaveAttempt(p)
    \/ \E p \in Procs : SaveRepair(p)
    \/ \E p \in Procs : SaveDropIndex(p)
    \/ \E p \in Procs : SaveWait(p)
    \/ \E p \in Procs : Return(p)

\* every call that has been started is run to its end
SpecSave ==
    /\ InitSave
    /\ [][NextSave]_vars
    /\ \A p \in 1..NumProcs :
           WF_vars(SaveAttempt(p) \/ SaveRepair(p) \/ SaveDropIndex(p)
                       \/ SaveWait(p))

\* ---- cash-outs of a driver whose wallet was created with a balance and
\* no entries (create-test-driver.js), in any deployment
InitHolds ==
    /\ users = [u \in Users |-> "driver"]
    /\ \E balance \in Amounts : wallets = [u \in Users |-> NewWallet(balance)]
    /\ procs = [p \in 1..NumProcs |-> Idle]
    /\ nextRef = 1
    /\ payouts = {}
    /\ env \in [production : BOOLEAN, hasToken : BOOLEAN]

NextHolds ==
    \/ Quiet /\ \E p \in Procs, u \in Users, a \in Amounts :
           InitiateCashOutStart(p, u, a, TRUE)
    \/ Quiet /\ \E p \in Procs : InitiateCashOutPayout(p)
    \/ Quiet /\ \E p \in Procs : InitiateCashOutHold(p)
    \/ CashOutCallbacks
    \/ \E p \in Procs : Return(p)

SpecHolds == InitHolds /\ [][NextHolds]_vars

\* ---- cash-outs whose payout the provider rejects: the only callbacks it
\* sends report FAILED and carry its token
NextRejected ==
    \/ Quiet /\ \E p \in Procs, u \in Users, a \in Amounts :
           InitiateCashOutStart(p, u, a, TRUE)
    \/ Quiet /\ \E p \in Procs : InitiateCashOutPayout(p)
    \/ Quiet /\ \E p \in Procs : InitiateCashOutHold(p)
    \/ Quiet /\ \E p \in Procs, ref \in RefInputs :
           CashOutCallback(p, ref, "FAILED", "secret")
    \/ Quiet /\ \E p \in Procs : CashOutLookupStep(p)
    \/ Quiet /\ \E p \in Procs : CashOutComplete(p)
    \/ Quiet /\ \E p \in Procs : CashOutFail(p)
    \/ \E p \in Procs : Return(p)

SpecRejected == InitHolds /\ [][NextRejected]_vars

\* ---- the callbacks, with every started handler run to its end and its
\* response sent
SpecPaid ==
    /\ SpecCallbacks
    /\ \A p \in {1} :
           WF_vars(TopUpPaid(p) \/ TopUpFailed(p) \/ CashOutComplete(p)
                   \/ CashOutFail(p) \/ InitiateTopUpCreate(p)
                   \/ InitiateTopUpSave(p) \/ Return(p))

\* ------------------------------------------------------------ properties
\* what an entry contributes to the balance according to the ledger rule
LedgerDelta(t) ==
    IF t.status = "COMPLETED" /\ t.type \in {"TOPUP", "REFUND"} THEN t.amount
    ELSE IF t.status = "COMPLETED" /\ t.type \in {"PAYMENT", "CASHOUT"}
    THEN -t.amount
    ELSE IF t.status = "PENDING" /\ t.type = "CASHOUT" THEN -t.amount
    ELSE 0

RECURSIVE LedgerSum(_)
LedgerSum(s) ==
    IF s = <<>> THEN 0 ELSE LedgerDelta(Head(s)) + LedgerSum(Tail(s))

Terminal == {"COMPLETED", "FAILED", "CANCELLED"}

\* p takes a step of the handler it is running
Steps(p) == procs[p].pc \notin {"idle", "done"} /\ procs'[p] # procs[p]

Balance(u) == wallets[u].balance

BalanceAfter(u) == wallets'[u].balance

\* the stored entry with sub-document id tid, before and after the step
StatusOf(u, tid) ==
    wallets[u].transactions[IdxOfId(wallets[u].transactions, tid)].status

TypeOf(u, tid) ==
    wallets[u].transactions[IdxOfId(wallets[u].transactions, tid)].type

StatusAfter(u, tid) ==
    wallets'[u].transactions[IdxOfId(wallets'[u].transactions, tid)].status

\* C1: for every wallet, balance = sum of COMPLETED credits - sum of
\* COMPLETED debits - sum of PENDING cash-out holds
LedgerInv ==
    \A u \in Users :
        wallets[u].exists =>
            wallets[u].balance = LedgerSum(wallets[u].transactions)

\* C2: a wallet's balance is never negative, under every interleaving of the
\* handlers
BalanceNonNegative ==
    \A u \in Users : wallets[u].balance >= 0

\* a debit that raced past a stale balance read is about to meet the store's
\* predicate with too little left
RacedDebit ==
    \E p \in Procs :
        /\ procs[p].op = "deductFunds"
        /\ procs[p].pc = "update"
        /\ wallets[procs[p].user].balance < procs[p].amount

\* every concurrent call has returned
AllDone == \A p \in Procs : procs[p].pc = "done"

\* C3: N concurrent deductFunds(A) on a balance of (N-1)*A end with exactly
\* N-1 successes and exactly one insufficient-balance failure, whatever the
\* order; the balance ends at 0 with N-1 PAYMENT entries
NoDoubleSpend ==
    AllDone =>
        /\ Cardinality({p \in Procs : procs[p].result = "ok"})
               = Cardinality(Procs) - 1
        /\ Cardinality({p \in Procs : procs[p].result = "insufficient"}) = 1
        /\ \A u \in Users : wallets[u].exists =>
               /\ wallets[u].balance = 0
               /\ Len(wallets[u].transactions) = Cardinality(Procs) - 1

ThreeDebitorsDone ==
    /\ AllDone
    /\ Cardinality(Procs) >= 3
    /\ \E p \in Procs : procs[p].result = "insufficient"

\* C4: a TOPUP entry is credited exactly once: the paid path of
\* handleTopUpCallback or verifyTransaction never credits the balance for an
\* entry that is already COMPLETED, whatever else is PENDING in the wallet
TopUpCreditedOnce ==
    [][\A p \in Procs :
          (/\ procs[p].op \in {"handleTopUpCallback", "verifyTransaction"}
           /\ procs[p].pc = "paid"
           /\ Steps(p)
           /\ TypeOf(procs[p].user, procs[p].tid) = "TOPUP"
           /\ StatusOf(procs[p].user, procs[p].tid) = "COMPLETED")
          => BalanceAfter(procs[p].user) = Balance(procs[p].user)
      ]_vars

\* C5: the hold of a cash-out is restored exactly once: the failed path of
\* handleCashOutCallback never adds the amount back for an entry that is
\* already FAILED
HoldRestoredOnce ==
    [][\A p \in Procs :
          (/\ procs[p].op = "handleCashOutCallback"
           /\ procs[p].pc = "fail"
           /\ Steps(p)
           /\ StatusOf(procs[p].user, procs[p].tid) = "FAILED")
          => BalanceAfter(procs[p].user) = Balance(procs[p].user)
      ]_vars

\* C6: a callback delivered again after it was applied changes no wallet (no
\* balance change, no new entry, no status change) and is answered with
\* success
ReplayIsNoOp ==
    [][\A p \in Procs :
          (procs[p].replay /\ Steps(p))
          => /\ wallets' = wallets
             /\ procs'[p].pc = "done" => procs'[p].result = "already_processed"
      ]_vars

\* C7: once an entry is COMPLETED, FAILED or CANCELLED its status never
\* changes again
TerminalStable ==
    [][\A u \in Users : \A i \in Indexes(u) :
          wallets[u].transactions[i].status \in Terminal
          => wallets'[u].transactions[i].status
                 = wallets[u].transactions[i].status
      ]_vars

\* a call of requestCashOut that took its hold
HoldStep(p) ==
    /\ procs[p].op = "idle"
    /\ procs'[p].op = "requestCashOut"
    /\ procs'[p].result = "ok"

\* the wallet of a new commuter with a single cash-out entry
OneEntryCase ==
    \A u \in Users :
        Len(wallets[u].transactions) = 1 =>
            LET t == wallets[u].transactions[1]
            IN /\ t.type = "CASHOUT"
               /\ t.status \in {"PENDING", "COMPLETED"}
                      => wallets[u].balance = RegistrationBonus - t.amount
               /\ t.status = "FAILED" => wallets[u].balance = RegistrationBonus

\* what a hold, a FAILED callback and a COMPLETED callback do to the balance
HoldReleaseStep ==
    \A p \in Procs :
        /\ HoldStep(p) =>
              \E u \in Users :
                  /\ Len(wallets'[u].transactions)
                         = Len(wallets[u].transactions) + 1
                  /\ LET t == wallets'[u].transactions[
                                  Len(wallets'[u].transactions)]
                     IN /\ t.type = "CASHOUT"
                        /\ t.status = "PENDING"
                        /\ BalanceAfter(u) = Balance(u) - t.amount
        /\ (procs[p].pc = "fail" /\ Steps(p)) =>
              LET u == procs[p].user
              IN StatusOf(u, procs[p].tid) = "PENDING" =>
                     /\ StatusAfter(u, procs[p].tid) = "FAILED"
                     /\ BalanceAfter(u) = Balance(u) + procs[p].amount
        /\ (procs[p].pc = "complete" /\ Steps(p)) =>
              BalanceAfter(procs[p].user) = Balance(procs[p].user)

\* C8: requestCashOut(a) lowers the balance by a and appends one PENDING
\* CASHOUT entry of a; a FAILED callback on the PENDING entry gives a back and
\* marks it FAILED; a COMPLETED callback leaves the balance alone.  With the
\* spec's numbers: 500 -> 400 on a hold of 100, back to 500 on FAILED, still
\* 400 on COMPLETED
HoldReleaseRoundTrip == []OneEntryCase /\ [][HoldReleaseStep]_vars

\* 500 -> hold of 100 -> FAILED callback -> 500 again
ReleasedHold ==
    \E u \in Users :
        /\ Len(wallets[u].transactions) = 1
        /\ wallets[u].transactions[1].type = "CASHOUT"
        /\ wallets[u].transactions[1].amount = 100
        /\ wallets[u].transactions[1].status = "FAILED"
        /\ wallets[u].balance = RegistrationBonus

\* C9: a CASHOUT entry becomes COMPLETED only by a callback that came from
\* the provider
OnlyProviderCompletes ==
    [][\A u \in Users : \A i \in Indexes(u) :
          (/\ wallets[u].transactions[i].type = "CASHOUT"
           /\ wallets[u].transactions[i].status = "PENDING"
           /\ wallets'[u].transactions[i].status = "COMPLETED")
          => \E p \in Procs :
                 /\ Steps(p)
                 /\ procs[p].op = "handleCashOutCallback"
                 /\ procs[p].origin = "http"
      ]_vars

\* C10: initiateCashOut changes the balance and the entries of a wallet only
\* in its hold step, which runs only with a reference the provider returned;
\* when createPayout fails the wallets are left as they were
HoldAfterPayout ==
    [][\A p \in Procs :
          (procs[p].op = "initiateCashOut" /\ Steps(p)) =>
              LET u == procs[p].user
              IN /\ procs[p].pc = "hold" => procs[p].ref \in payouts
                 /\ (wallets[u].exists /\ wallets'[u] # wallets[u]) =>
                        /\ procs[p].pc = "hold"
                        /\ procs[p].ref \in payouts
                        /\ wallets'[u] = CashOutHold(wallets[u], procs[p].amount,
                                                     procs[p].ref)
                 /\ procs'[p].result = "500:payout_failed" => wallets' = wallets
      ]_vars

\* createPayout failed for a driver whose wallet could have paid
PayoutFailed ==
    \E p \in Procs :
        /\ procs[p].op = "initiateCashOut"
        /\ procs[p].result = "500:payout_failed"
        /\ \E u \in Users :
               /\ wallets[u].balance >= MinCashOut
               /\ wallets[u].transactions # <<>>
               /\ \A i \in Indexes(u) : wallets[u].transactions[i].type # "CASHOUT"

\* what the last entry of a wallet does to the balance when it is applied
SignedAmount(t) ==
    IF t.type \in {"TOPUP", "REFUND"} THEN t.amount ELSE -t.amount

\* u's wallet got exactly one new entry together with that entry's amount
AppliedWhole(u) ==
    LET s == wallets[u].transactions
        t == wallets'[u].transactions
    IN /\ Len(t) = Len(s) + 1
       /\ SubSeq(t, 1, Len(s)) = s
       /\ BalanceAfter(u) = Balance(u) + SignedAmount(t[Len(t)])

\* a wallet method returns a failure
MethodFails(p) ==
    /\ procs[p].pc # "done"
    /\ procs'[p].pc = "done"
    /\ procs'[p].op \in {"addFunds", "deductFunds", "requestCashOut"}
    /\ procs'[p].result # "ok"

FloorKept ==
    /\ \A u \in Users : \A i \in Indexes(u) :
           wallets[u].transactions[i].type = "CASHOUT"
               => wallets[u].transactions[i].amount >= MinCashOut
    /\ \A p \in Procs :
           (procs[p].op = "initiateCashOut" /\ procs[p].pc # "done")
               => procs[p].amount >= MinCashOut

\* the answer below_minimum changes no wallet and asks the provider nothing
BelowMinimumStep ==
    \A p \in Procs :
        (/\ procs[p].pc # "done"
         /\ procs'[p].op = "initiateCashOut"
         /\ procs'[p].result = "below_minimum")
        => wallets' = wallets /\ payouts' = payouts

\* C12: a cash-out request below the floor of 100 is refused as below the
\* minimum, changes no balance, creates no entry and never reaches the
\* provider
BelowMinimumRefused == []FloorKept /\ [][BelowMinimumStep]_vars

\* a driver who could have paid was refused for asking less than the floor
BelowMinimumAnswered ==
    \E p \in Procs :
        /\ procs[p].op = "initiateCashOut"
        /\ procs[p].result = "below_minimum"
        /\ \E u \in Users : users[u] = "driver" /\ wallets[u].balance >= MinCashOut

\* the entries of all wallets, each with its place
Entries ==
    {<<u, i>> : u \in Users, i \in 1..MaxTxns} \cap
    {e \in Users \X (1..MaxTxns) : e[2] <= Len(wallets[e[1]].transactions)}

ReferenceOf(e) == wallets[e[1]].transactions[e[2]].referenceId

\* C13: no two entries, in one wallet or in two, share a referenceId
UniqueReferenceIds ==
    \A e \in Entries : \A f \in Entries :
        e # f => ReferenceOf(e) # ReferenceOf(f)

\* a wallet method gives up on a duplicate key
GivesUp(p) ==
    /\ procs[p].pc = "insert"
    /\ procs'[p].pc = "done"
    /\ procs'[p].result = "E11000"

\* C14: a wallet method whose insert collides on referenceId fails only after
\* it has retried once
RetriedOnce ==
    [][\A p \in Procs : GivesUp(p) => procs[p].retryCount = 1]_vars

\* no entry of any wallet carries ref as its referenceId or its xenditId
Unknown(ref) ==
    \A e \in Entries :
        LET t == wallets[e[1]].transactions[e[2]]
        IN t.referenceId # ref /\ t.xenditId # ref

\* a callback naming ref arrives with token at handler p
Arrives(p, ref, token) ==
    /\ procs[p].op = "idle"
    /\ procs'[p].op \in {"handleTopUpCallback", "handleCashOutCallback"}
    /\ \/ \E status \in TopUpStatuses : TopUpCallback(p, ref, status, token)
       \/ \E status \in PayoutStatuses : CashOutCallback(p, ref, status, token)

\* C15: a top-up or cash-out callback whose id matches no entry is answered
\* with not found (or refused for its token before the lookup), never with
\* success, and changes no wallet
UnknownIdNotFound ==
    [][\A p \in Procs, ref \in RefInputs \ {0}, token \in Tokens :
           (Unknown(ref) /\ Arrives(p, ref, token))
           => /\ procs'[p].pc = "done"
              /\ procs'[p].result \in {"401", "404"}
              /\ token = "secret" => procs'[p].result = "404"
              /\ wallets' = wallets
      ]_vars

\* not found was answered while an entry of another id was waiting for its
\* callback
NotFoundAnswered ==
    \E p \in Procs :
        /\ procs[p].op \in {"handleTopUpCallback", "handleCashOutCallback"}
        /\ procs[p].result = "404"
        /\ \E e \in Entries :
               wallets[e[1]].transactions[e[2]].status = "PENDING"

\* handler p serves a callback that came over HTTP with a token other than
\* the configured one
WrongToken(p) ==
    /\ procs[p].op \in {"handleTopUpCallback", "handleCashOutCallback"}
    /\ procs[p].origin = "http"
    /\ procs[p].pc # "done"
    /\ env.hasToken
    /\ ~procs[p].tokenMatch

\* C16: a top-up or cash-out callback whose x-callback-token is not the
\* configured secret changes no wallet: no balance, no entry status
WrongTokenChangesNothing ==
    [][\A p \in Procs :
           (WrongToken(p) /\ procs'[p] # procs[p]) => wallets' = wallets]_vars

\* a handler that found no wallet saves a new one although one exists by now
LateCreation(p) ==
    /\ procs[p].pc = "create"
    /\ wallets[procs[p].user].exists
    /\ procs'[p] # procs[p]

OneDocument ==
    \A u \in Users : /\ wallets[u].documents <= 1
                     /\ wallets[u].exists <=> wallets[u].documents = 1

EngineOps ==
    {"addFunds", "deductFunds", "requestCashOut", "initiateTopUp",
     "initiateCashOut", "handleTopUpCallback", "handleCashOutCallback",
     "verifyTransaction"}

\* C18: the balance and the entries of a wallet change only in a step of
\* addFunds, deductFunds, requestCashOut, pending top-up creation or
\* callback reconciliation
SoleMutator ==
    [][\A u \in Users :
           (/\ wallets[u].exists
            /\ wallets'[u].exists
            /\ \/ wallets'[u].balance # wallets[u].balance
               \/ wallets'[u].transactions # wallets[u].transactions)
           => \E p \in Procs : /\ procs'[p] # procs[p]
                               /\ procs'[p].op \in EngineOps]_vars

\* entry i of u's wallet is after the step what it was, but for its status
KeptEntry(u, i) ==
    /\ i <= Len(wallets'[u].transactions)
    /\ [wallets'[u].transactions[i] EXCEPT !.status = "any"]
           = [wallets[u].transactions[i] EXCEPT !.status = "any"]

\* C19: a wallet is never deleted and its entry list only grows: every
\* entry stays in its place with its amount, only its status may change
NeverDeleted ==
    [][\A u \in Users :
           wallets[u].exists
           => /\ wallets'[u].exists
              /\ \A i \in Indexes(u) : KeptEntry(u, i)]_vars

RECURSIVE Reverse(_)
Reverse(s) ==
    IF s = <<>> THEN <<>>
    ELSE <<s[Len(s)]>> \o Reverse(SubSeq(s, 1, Len(s) - 1))

\* C20: the history listing returns the entries in reverse insertion order,
\* page by page, also when entries share their creation timestamp
ReverseInsertionOrder ==
    [][\A p \in Procs, u \in Users, page \in Pages, limit \in Limits :
           GetTransactionHistory(p, u, page, limit)
           => procs'[p].listing =
                  FormatAll(Slice(Reverse(wallets[u].transactions),
                                  (page - 1) * limit, limit))]_vars

\* handler p answers a read: getWallet, getTransactionHistory, or a
\* verifyTransaction that ends at its lookup (no entry, or an entry that is
\* COMPLETED or FAILED)
ReadAnswered(p) ==
    /\ procs[p].op = "idle"
    /\ procs'[p].pc = "done"
    /\ procs'[p].op \in {"getWallet", "getTransactionHistory",
                         "verifyTransaction"}

\* C21: a read path creates no wallet and changes none: the set of wallets,
\* every balance and every entry are after the answer what they were before
ReadsChangeNothing ==
    [][\A p \in Procs : ReadAnswered(p) => wallets' = wallets]_vars

\* the balance of a user without a wallet was asked for
ReadWithoutWallet ==
    \E p \in Procs :
        /\ procs[p].op = "getWallet"
        /\ procs[p].pc = "done"
        /\ \E u \in Users : users[u] = "driver" /\ ~wallets[u].exists

\* the last entry of u's wallet after the step
Appended(u) == wallets'[u].transactions[Len(wallets'[u].transactions)]

\* u's wallet got exactly one entry of this type, amount and status
OneMore(u, type, amount, status) ==
    /\ Len(wallets'[u].transactions) = Len(wallets[u].transactions) + 1
    /\ SubSeq(wallets'[u].transactions, 1, Len(wallets[u].transactions))
           = wallets[u].transactions
    /\ Appended(u).type = type
    /\ Appended(u).amount = amount
    /\ Appended(u).status = status

\* what a step of deductFunds does, by the balance it finds
DebitStep(p) ==
    LET u == procs[p].user
        amount == procs[p].amount
    IN IF Balance(u) < amount
       THEN /\ procs'[p].pc = "done"
            /\ procs'[p].result = "insufficient"
            /\ wallets' = wallets
       ELSE IF procs[p].pc = "check"
       THEN /\ procs'[p].pc = "update"
            /\ wallets' = wallets
       ELSE /\ procs'[p].result = "ok"
            /\ OneMore(u, "PAYMENT", amount, "COMPLETED")
            /\ BalanceAfter(u) = Balance(u) - amount

\* C22: deductFunds on a wallet whose balance covers the amount appends
\* exactly one COMPLETED PAYMENT entry of that amount and lowers the balance
\* by exactly the amount; on a balance below the amount it fails as
\* insufficient and changes nothing
DebitExact ==
    [][\A p \in Procs :
           (/\ procs[p].op = "deductFunds"
            /\ procs[p].pc \in {"check", "update"}
            /\ procs'[p] # procs[p])
           => DebitStep(p)]_vars

\* a debit of 100 went through on the wallet of a new commuter
DebitApplied ==
    \E p \in Procs, u \in Users :
        /\ procs[p].op = "deductFunds"
        /\ procs[p].result = "ok"
        /\ wallets[u].balance = RegistrationBonus - 100
        /\ Len(wallets[u].transactions) = 1

RECURSIVE AmountSum(_)
AmountSum(s) == IF s = <<>> THEN 0 ELSE Head(s).amount + AmountSum(Tail(s))

\* the stored balance is the initial balance plus the credits so far
CreditsAddUp ==
    \A u \in Users :
        wallets[u].exists
        => /\ wallets[u].balance
                  = InitialBalance(u) + AmountSum(wallets[u].transactions)
           /\ \A i \in Indexes(u) :
                  wallets[u].transactions[i].status = "COMPLETED"

\* a call of addFunds with a positive amount appends one COMPLETED entry
\* and raises the balance by the amount
CreditStep ==
    \A p \in Procs, u \in Users, a \in AmountInputs :
        (a > 0 /\ AddFunds(p, u, a))
        => /\ OneMore(u, "TOPUP", a, "COMPLETED")
           /\ BalanceAfter(u) = Balance(u) + a

\* C23: each addFunds with a positive amount appends exactly one COMPLETED
\* entry and raises the stored balance by exactly the amount, so that after
\* k calls the balance is the initial balance plus the k amounts
CreditExact == []CreditsAddUp /\ [][CreditStep]_vars

\* two credits in a row on one wallet
TwoCredits ==
    \E u \in Users :
        /\ Len(wallets[u].transactions) = 2
        /\ wallets[u].balance
               = InitialBalance(u) + AmountSum(wallets[u].transactions)
        /\ \E p \in Procs : procs[p].op = "addFunds" /\ procs[p].result = "ok"

\* C24: every stored entry has a strictly positive amount
PositiveAmounts ==
    \A e \in Entries : wallets[e[1]].transactions[e[2]].amount > 0

\* the entries of u's wallet are after the step what they were, but for the
\* status of those whose id is tid, which is now status
OnlyStatus(u, tid, status) ==
    /\ Len(wallets'[u].transactions) = Len(wallets[u].transactions)
    /\ \A i \in Indexes(u) :
           LET t == wallets[u].transactions[i]
           IN wallets'[u].transactions[i] =
                  IF t.id = tid THEN [t EXCEPT !.status = status] ELSE t

\* the entries of u's wallet differ after the step at most in their status
StatusesOnly(u) ==
    /\ Len(wallets'[u].transactions) = Len(wallets[u].transactions)
    /\ \A i \in Indexes(u) :
           \E status \in {"PENDING", "COMPLETED", "FAILED"} :
               wallets'[u].transactions[i]
                   = [wallets[u].transactions[i] EXCEPT !.status = status]

\* C25: completing a PENDING CASHOUT entry flips its status and nothing
\* else: the balance stays what the hold left
CompletionFlipsStatus ==
    [][\A p \in Procs :
           (/\ procs[p].op = "handleCashOutCallback"
            /\ procs[p].pc = "complete"
            /\ procs'[p].result = "cashout_completed")
           => /\ \A u \in Users : BalanceAfter(u) = Balance(u)
              /\ \A u \in Users : StatusesOnly(u)]_vars

\* the one hold of a new commuter's wallet was completed
CashOutSettled ==
    \E p \in Procs, u \in Users :
        /\ procs[p].result = "cashout_completed"
        /\ Len(wallets[u].transactions) = 1
        /\ wallets[u].transactions[1].type = "CASHOUT"
        /\ wallets[u].transactions[1].status = "COMPLETED"
        /\ wallets[u].balance
               = RegistrationBonus - wallets[u].transactions[1].amount

\* C26: a failed or expired callback for a PENDING TOPUP entry sets the
\* entry to FAILED and leaves every balance unchanged
FailureLeavesBalance ==
    [][\A p \in Procs :
           (/\ procs[p].op = "handleTopUpCallback"
            /\ procs[p].pc = "failed"
            /\ procs'[p] # procs[p]
            /\ TypeOf(procs[p].user, procs[p].tid) = "TOPUP"
            /\ StatusOf(procs[p].user, procs[p].tid) = "PENDING")
           => /\ \A u \in Users : BalanceAfter(u) = Balance(u)
              /\ OnlyStatus(procs[p].user, procs[p].tid, "FAILED")
              /\ procs'[p].result = "payment_failed"]_vars

\* a top-up of a new commuter expired
TopUpExpired ==
    \E p \in Procs, u \in Users :
        /\ procs[p].result = "payment_failed"
        /\ Len(wallets[u].transactions) = 1
        /\ wallets[u].transactions[1].type = "TOPUP"
        /\ wallets[u].transactions[1].status = "FAILED"
        /\ wallets[u].balance = RegistrationBonus

\* C27: a completed wallet ride has debited the passenger's wallet by the
\* fare and credited the driver's wallet by the fare
EntryFor(u, referenceId, type, amount) ==
    \E i \in 1..Len(wallets[u].transactions) :
        /\ wallets[u].transactions[i].referenceId = referenceId
        /\ wallets[u].transactions[i].type = type
        /\ wallets[u].transactions[i].amount = amount
        /\ wallets[u].transactions[i].status = "COMPLETED"

RideCompleted(p) ==
    /\ procs[p].op = "ride"
    /\ procs[p].pc = "done"
    /\ procs[p].result = "ride_completed"

CompletedRidePaid ==
    \A p \in Procs :
        RideCompleted(p)
        => /\ EntryFor(procs[p].user, procs[p].ref, "PAYMENT", procs[p].amount)
           /\ EntryFor(procs[p].driver, procs[p].driverRef, "TOPUP",
                       procs[p].amount)

RideSettled ==
    \E p \in Procs :
        /\ RideCompleted(p)
        /\ EntryFor(procs[p].user, procs[p].ref, "PAYMENT", procs[p].amount)
        /\ EntryFor(procs[p].driver, procs[p].driverRef, "TOPUP", procs[p].amount)
        /\ wallets[procs[p].user].balance = RegistrationBonus - procs[p].amount
        /\ wallets[procs[p].driver].balance = procs[p].amount

\* C29: fixNullTransactionReferenceIds gives every entry without a
\* referenceId a new one, different from every other, and changes no other
\* field, no other entry and no balance
RefsOf(ws) ==
    {<<u, i>> \in (DOMAIN ws) \X (1..(MaxTxns + 1)) :
        i <= Len(ws[u].transactions)}

RepairStep(p) ==
    /\ procs[p].op = "idle"
    /\ procs'[p].op = "fixNullTransactionReferenceIds"

RepairAssignsIdsOnly ==
    [][\A p \in Procs :
           RepairStep(p)
           => /\ \A u \in DOMAIN wallets :
                     /\ wallets'[u].balance = wallets[u].balance
                     /\ Len(wallets'[u].transactions)
                            = Len(wallets[u].transactions)
                     /\ \A i \in 1..Len(wallets[u].transactions) :
                            LET before == wallets[u].transactions[i]
                                after == wallets'[u].transactions[i]
                            IN IF before.referenceId = 0
                               THEN /\ after.referenceId # 0
                                    /\ after = [before EXCEPT !.referenceId =
                                                    after.referenceId]
                               ELSE after = before
              /\ \A a, b \in RefsOf(wallets') :
                     a # b => wallets'[a[1]].transactions[a[2]].referenceId
                                  # wallets'[b[1]].transactions[b[2]].referenceId
      ]_vars

TwoRepaired ==
    \E p \in Procs, u \in DOMAIN wallets :
        /\ procs[p].result = "fixed"
        /\ Len(wallets[u].transactions) = MaxTxns
        /\ \A i \in 1..MaxTxns : wallets[u].transactions[i].referenceId < 0
        /\ wallets[u].transactions[1].referenceId
               # wallets[u].transactions[MaxTxns].referenceId

\* C28: saveWithRepair ends; it retries only after a duplicate key on
\* transactions.referenceId, at most MaxRetries times, repairs null
\* referenceIds before the first retry and drops the index before the second,
\* and rethrows every other error at once
Saving(p) == procs[p].op = "saveWithRepair" /\ procs[p].pc # "done"

Retry(p) ==
    /\ Saving(p)
    /\ procs'[p].retryCount = procs[p].retryCount + 1

SaveWithRepairEnds ==
    /\ [](\A p \in Procs : Saving(p) => procs[p].retryCount <= MaxRetries)
    /\ [][\A p \in Procs :
              /\ Retry(p)
                 => /\ procs[p].pc \in {"repair", "drop", "wait"}
                    /\ procs'[p].pc = "save"
                    /\ procs[p].retryCount = 0
                           <=> procs[p].pc = "repair" /\ wallets' = FixNull(wallets)
                    /\ procs[p].retryCount = 1 <=> procs[p].pc = "drop"
              /\ (Saving(p) /\ procs[p].pc = "save" /\ procs'[p] # procs[p])
                 => \/ procs'[p].result = "ok" /\ wallets'[procs[p].user].exists
                    \/ procs'[p].result = "E11000 user" /\ wallets' = wallets
                    \/ /\ procs'[p].result = "E11000 transactions.referenceId"
                       /\ procs[p].retryCount = MaxRetries
                       /\ wallets' = wallets
                    \/ /\ procs'[p].pc \in {"repair", "drop", "wait"}
                       /\ procs[p].retryCount < MaxRetries
                       /\ wallets' = wallets
      ]_vars
    /\ \A p \in 1..NumProcs : Saving(p) ~> (procs[p].pc = "done")

\* the third retry failed and the error was rethrown
RetriesExhausted ==
    \E p \in Procs :
        /\ procs[p].op = "saveWithRepair"
        /\ procs[p].result = "E11000 transactions.referenceId"
        /\ ~wallets["u1"].exists

\* C30: a paid top-up callback that carries the right token and whose entry
\* is not of type TOPUP changes neither a balance nor the status of the entry
PaidForOtherType(p) ==
    /\ procs[p].op = "handleTopUpCallback"
    /\ procs[p].pc = "paid"
    /\ procs[p].tokenMatch
    /\ TypeOf(procs[p].user, procs[p].tid) # "TOPUP"

OnlyTopUpsCredited ==
    [][\A p \in Procs :
           (PaidForOtherType(p) /\ procs'[p] # procs[p])
           => /\ BalanceAfter(procs[p].user) = Balance(procs[p].user)
              /\ StatusAfter(procs[p].user, procs[p].tid)
                     = StatusOf(procs[p].user, procs[p].tid)]_vars

\* a held cash-out was answered payment_completed and the hold came back
CashOutPaidAsTopUp ==
    \E p \in Procs, u \in Users :
        /\ procs[p].op = "handleTopUpCallback"
        /\ procs[p].result = "payment_completed"
        /\ Len(wallets[u].transactions) = 1
        /\ wallets[u].transactions[1].type = "CASHOUT"
        /\ wallets[u].transactions[1].status = "COMPLETED"
        /\ wallets[u].balance = RegistrationBonus

\* C31: a callback or verifyTransaction changes the status of no entry other
\* than the one it looked up
Settling(p) ==
    /\ procs[p].op \in {"handleTopUpCallback", "handleCashOutCallback",
                        "verifyTransaction"}
    /\ procs[p].tid # 0
    /\ procs'[p] # procs[p]

OtherEntriesKeepStatus ==
    [][\A p \in Procs :
           Settling(p)
           => LET u == procs[p].user
              IN /\ Len(wallets'[u].transactions) = Len(wallets[u].transactions)
                 /\ \A i \in Indexes(u) :
                        wallets[u].transactions[i].id # procs[p].tid
                        => wallets'[u].transactions[i].status
                               = wallets[u].transactions[i].status]_vars

\* two PENDING top-ups of different amounts: the first was completed, the
\* amount of the second was credited
OtherEntrySettled ==
    \E p \in Procs, u \in Users :
        /\ procs[p].result = "payment_completed"
        /\ Len(wallets[u].transactions) = 2
        /\ wallets[u].transactions[1].status = "COMPLETED"
        /\ wallets[u].transactions[2].status = "PENDING"
        /\ wallets[u].balance - wallets[u].transactions[2].amount
               \in {0, RegistrationBonus}
        /\ wallets[u].balance - wallets[u].transactions[1].amount
               \notin {0, RegistrationBonus}
        /\ wallets[u].transactions[1].type = "TOPUP"
        /\ wallets[u].transactions[2].type = "TOPUP"

\* C32: once initiateCashOut is past its hold, every payout the provider
\* accepted has a CASHOUT entry with the payout's referenceId in a wallet
StillHolding(ref) ==
    \E p \in Procs : /\ procs[p].op = "initiateCashOut"
                     /\ procs[p].pc = "hold"
                     /\ procs[p].ref = ref

EveryPayoutHeld ==
    \A ref \in payouts :
        \/ StillHolding(ref)
        \/ \E u \in Users : \E i \in Indexes(u) :
               /\ wallets[u].transactions[i].type = "CASHOUT"
               /\ wallets[u].transactions[i].referenceId = ref

\* a payout is out and its cash-out was answered with the refused hold
PayoutWithoutHold ==
    \E p \in Procs, ref \in payouts :
        /\ procs[p].result = "500:insufficient"
        /\ ~StillHolding(ref)
        /\ \A u \in Users : \A i \in Indexes(u) :
               wallets[u].transactions[i].referenceId # ref

\* C33: however many completion requests a ride receives, it debits the
\* passenger at most once and credits the driver at most once
RideEntries(u, ride, type) ==
    {i \in Indexes(u) : /\ wallets[u].transactions[i].rideId = ride
                        /\ wallets[u].transactions[i].type = type}

RidePaidOnce ==
    \A p \in Procs :
        procs[p].op = "ride"
        => /\ Cardinality(RideEntries(Passenger, procs[p].ride, "PAYMENT")) <= 1
           /\ Cardinality(RideEntries(Driver, procs[p].ride, "TOPUP")) <= 1

\* both requests for one ride have answered and the fare moved twice
RidePaidTwice ==
    \E p, q \in Procs :
        /\ p # q
        /\ RideCompleted(p)
        /\ RideCompleted(q)
        /\ procs[p].ride = procs[q].ride
        /\ Cardinality(RideEntries(Passenger, procs[p].ride, "PAYMENT")) = 2
        /\ Cardinality(RideEntries(Driver, procs[p].ride, "TOPUP")) = 2
        /\ wallets[Passenger].balance = RegistrationBonus - 2 * procs[p].amount

\* C34: ride completion moves money and neither makes nor loses any: when no
\* completion stands between its debit and its credit, the two balances add
\* up to what they added up to at the start
BetweenDebitAndCredit(p) ==
    /\ procs[p].op = "ride"
    /\ procs[p].pc \in {"driver", "create", "credit"}

RidesConserveMoney ==
    (\A p \in Procs : ~BetweenDebitAndCredit(p))
    => wallets[Passenger].balance + wallets[Driver].balance = RegistrationBonus

\* a completed ride that debited the passenger and credited nobody
DebitWithoutCredit ==
    \E p \in Procs :
        /\ RideCompleted(p)
        /\ procs[p].ref # 0
        /\ procs[p].driverRef = 0
        /\ \A q \in Procs : ~BetweenDebitAndCredit(q)
        /\ wallets[Passenger].balance + wallets[Driver].balance
               < RegistrationBonus

\* C35: the provider's FAILED callback for a held payout is never dropped:
\* its handler goes on to restore the hold, unless the entry is FAILED already
EntryOfPayout(ref, status) ==
    \E u \in Users : \E i \in Indexes(u) :
        /\ wallets[u].transactions[i].referenceId = ref
        /\ wallets[u].transactions[i].type = "CASHOUT"
        /\ wallets[u].transactions[i].status = status

RejectedPayoutRestored ==
    [][\A p \in Procs, ref \in payouts :
           (/\ CashOutCallback(p, ref, "FAILED", "secret")
            /\ WalletsWithRef(ref) # {})
           => \/ procs'[p].pc = "fail"
              \/ EntryOfPayout(ref, "FAILED")]_vars

\* the provider's FAILED callback was answered as already processed: the
\* entry is COMPLETED and the amount is still taken
RejectedPayoutKept ==
    \E p \in Procs, ref \in payouts, u \in Users :
        /\ procs[p].op = "handleCashOutCallback"
        /\ procs[p].result = "already_processed"
        /\ EntryOfPayout(ref, "COMPLETED")
        /\ Len(wallets[u].transactions) = 1
        /\ wallets[u].transactions[1].referenceId = ref
        /\ wallets[u].balance + wallets[u].transactions[1].amount \in Amounts

\* C36: a PENDING TOPUP entry whose paid callback has reached the paid path
\* becomes COMPLETED
HasStatus(u, tid, status) ==
    \E i \in Indexes(u) : /\ wallets[u].transactions[i].id = tid
                          /\ wallets[u].transactions[i].status = status

PaidPathFor(u, tid) ==
    \E p \in Procs :
        /\ procs[p].op = "handleTopUpCallback"
        /\ procs[p].pc = "paid"
        /\ procs[p].user = u
        /\ procs[p].tid = tid
        /\ TypeOf(u, tid) = "TOPUP"

PaidTopUpCompletes ==
    \A u \in Users, tid \in 1..MaxRefs :
        PaidPathFor(u, tid) ~> HasStatus(u, tid, "COMPLETED")

\* C37: the save of initiateTopUp appends exactly one PENDING TOPUP entry of
\* the requested amount to the wallet as it is stored at that moment: the
\* balance and every entry already there, those written by concurrent
\* addFunds, deductFunds, requestCashOut or callbacks included, stay as they
\* are, and no other wallet changes
TopUpSaves(p) ==
    /\ procs[p].op = "initiateTopUp"
    /\ procs[p].pc = "save"
    /\ procs'[p] # procs[p]

TopUpAppendsOnly ==
    [][\A p \in Procs :
          TopUpSaves(p) =>
              LET u == procs[p].user
                  before == wallets[u]
                  after == wallets'[u]
                  n == Len(before.transactions)
              IN /\ after.balance = before.balance
                 /\ Len(after.transactions) = n + 1
                 /\ SubSeq(after.transactions, 1, n) = before.transactions
                 /\ after.transactions[n + 1].type = "TOPUP"
                 /\ after.transactions[n + 1].status = "PENDING"
                 /\ after.transactions[n + 1].amount = procs[p].amount
                 /\ \A v \in Users \ {u} : wallets'[v] = wallets[v]]_vars

\* a top-up was saved behind an entry that another operation appended, with
\* its balance change, after the invoice of the top-up had been created
TopUpSavedAfterConcurrentWrite ==
    \E u \in Users :
        LET txns == wallets[u].transactions
        IN \E i, j \in DOMAIN txns :
               /\ i < j
               /\ txns[j].type = "TOPUP"
               /\ txns[j].status = "PENDING"
               /\ txns[j].xenditId = txns[j].id
               /\ txns[i].id > txns[j].id
               /\ txns[i].status = "COMPLETED"
               /\ wallets[u].balance # InitialBalance(u)

\* C38: a callback whose status is neither a paid or completed signal nor a
\* failed, expired or rejected one ends in the step that looked the entry
\* up: it starts no update, so every entry keeps its status, a PENDING one
\* stays PENDING, and every balance stays as it is
NeitherSignal(status) ==
    status \notin {"PAID", "COMPLETED", "SUCCESS", "EXPIRED", "FAILED",
                   "REJECTED"}

UnknownStatusIgnored ==
    [][\A p \in Procs, ref \in RefInputs, token \in Tokens :
          \A status \in TopUpStatuses \cup PayoutStatuses :
              (/\ NeitherSignal(status)
               /\ \/ TopUpCallback(p, ref, status, token)
                  \/ CashOutCallback(p, ref, status, token))
              => /\ wallets' = wallets
                 /\ procs'[p].pc = "done"
                 /\ procs'[p].result \notin ProcessedNow]_vars

\* a top-up callback was answered already_processed while every entry of
\* the wallet, a top-up among them, is still PENDING and the balance is the
\* one the wallet started with
PendingAfterUnknownStatus ==
    \E p \in Procs, u \in Users :
        LET txns == wallets[u].transactions
        IN /\ procs[p].op = "handleTopUpCallback"
           /\ procs[p].pc = "done"
           /\ procs[p].result = "already_processed"
           /\ wallets[u].exists
           /\ wallets[u].balance = InitialBalance(u)
           /\ \E i \in DOMAIN txns : txns[i].type = "TOPUP"
           /\ \A i \in DOMAIN txns : txns[i].status = "PENDING"

====
